---- MODULE Spec2Model ----
(***************************************************************************)
(* Shared-transaction derivation and split reconciliation                  *)
(* (services/transactions.py, api/ynab_client.py, api/client.py).          *)
(*                                                                         *)
(* Text is a sequence of one-character strings, so that lower-casing,      *)
(* stripping and substring tests are computed as the Python code computes  *)
(* them.  None is the record NoneV; a DataFrame is a record of its column  *)
(* set and its rows.                                                       *)
(***************************************************************************)
EXTENDS Integers, Sequences, FiniteSets, TLC

VARIABLES
    frames,                 \* DataFrame objects of the user-settings table: "caller" is the caller's, "copy" a private copy
    category_mappings_df,   \* the category-rule table
    transactions,           \* the list handed to the call under study
    user_number,            \* Filter argument
    pc,                     \* position of the call under study
    filtered,               \* Filter: value returned by the last call
    first_filtered,         \* Filter: value returned by the first call
    frames0,                \* the frames as they were before the first call
    ncalls,                 \* number of calls made so far
    idx,                    \* Reconciler: position of the loop in the list
    results,                \* Reconciler: the results list
    calls,                  \* requests the budgeting service has received, in order
    budgets,                \* the budgeting service: accounts, categories and feed of each budget
    source_user,            \* Split Engine argument
    target_user,            \* Split Engine argument
    grouped_results,        \* Split Engine: value returned by the last call
    runs,                   \* the groups emitted by the completed runs, in order
    provider,               \* the pages the budgeting service serves for a feed, by page number
    fetch,                  \* get_transactions: its argument and its locals
    lookup                  \* get_id_by_name: its arguments and the id returned

vars == <<frames, category_mappings_df, transactions, user_number, pc,
          filtered, first_filtered, frames0, ncalls, idx, results, calls,
          budgets, source_user, target_user, grouped_results, runs,
          provider, fetch, lookup>>

\* what no call writes
ConfigVars == <<category_mappings_df, budgets, frames0>>
\* what only the Filter writes
FilterVars == <<user_number, filtered, first_filtered>>
\* what only the Reconciler's loop writes
LoopVars == <<idx, results>>
\* what only the Split Engine writes
SplitVars == <<source_user, target_user, grouped_results>>
\* what only the calls of the budgeting client by themselves read and write
FetchVars == <<provider, fetch, lookup>>

(***************************************************************************)
(* Bounds of the model                                                     *)
(***************************************************************************)
MaxTx == 2
MaxCalls == 2
\* requests the budgeting service refuses in one behaviour
MaxErrors == 1

(***************************************************************************)
(* Python values                                                           *)
(***************************************************************************)
NoneV == [t |-> "none"]
Num(n) == [t |-> "num", n |-> n]
NaN == [t |-> "nan"]
Str(s) == [t |-> "str", s |-> s]
Bool(b) == [t |-> "bool", b |-> b]

IsNone(v) == v = NoneV

UpperChars == <<"A","B","C","D","E","F","G","H","I","J","K","L","M",
                "N","O","P","Q","R","S","T","U","V","W","X","Y","Z">>
LowerChars == <<"a","b","c","d","e","f","g","h","i","j","k","l","m",
                "n","o","p","q","r","s","t","u","v","w","x","y","z">>

\* str.lower() on one character
LowerChar(c) ==
    IF \E k \in 1..Len(UpperChars) : UpperChars[k] = c
    THEN LowerChars[CHOOSE k \in 1..Len(UpperChars) : UpperChars[k] = c]
    ELSE c

\* str.lower()
Lower(s) == [k \in 1..Len(s) |-> LowerChar(s[k])]

RECURSIVE LStrip(_)
LStrip(s) == IF s # <<>> /\ Head(s) = " " THEN LStrip(Tail(s)) ELSE s

RECURSIVE RStrip(_)
RStrip(s) ==
    IF s # <<>> /\ s[Len(s)] = " " THEN RStrip(SubSeq(s, 1, Len(s) - 1)) ELSE s

\* str.strip()
Strip(s) == RStrip(LStrip(s))

\* Python's `needle in haystack` on str
In(needle, haystack) ==
    \E k \in 0..(Len(haystack) - Len(needle)) :
        SubSeq(haystack, k + 1, k + Len(needle)) = needle

\* str(x or ""): None and "" both give ""
StrOrEmpty(v) == IF v.t = "str" THEN v.s ELSE <<>>

Digits == <<"0","1","2","3","4","5","6","7","8","9">>
IsDigit(c) == \E k \in 1..10 : Digits[k] = c
DigitVal(c) == (CHOOSE k \in 1..10 : Digits[k] = c) - 1

RECURSIVE ParseNat(_, _)
ParseNat(s, acc) ==
    IF s = <<>> THEN acc ELSE ParseNat(Tail(s), 10 * acc + DigitVal(Head(s)))

\* pd.to_numeric(..., errors="coerce") on one cell
ToNumericCell(v) ==
    CASE v.t = "num" -> v
      [] v.t = "str" /\ v.s # <<>> /\ (\A k \in 1..Len(v.s) : IsDigit(v.s[k]))
            -> Num(ParseNat(v.s, 0))
      [] OTHER -> NaN

(***************************************************************************)
(* DataFrames                                                              *)
(***************************************************************************)
EmptyFrame == [cols |-> {}, rows |-> <<>>]

\* DataFrame.empty
FrameEmpty(df) == df.cols = {} \/ df.rows = <<>>

\* row.get(col): None when the column is absent
RowGet(row, col) == IF col \in DOMAIN row THEN row[col] ELSE NoneV

\* df[col] = pd.to_numeric(df[col], errors="coerce")
CoerceUserNumber(df) ==
    [df EXCEPT !.rows =
        [k \in 1..Len(df.rows) |->
            [df.rows[k] EXCEPT !["User Number"] = ToNumericCell(@)]]]

\* df.loc[df["User Number"] == user_num]
RowsOfUser(df, user_num) ==
    SelectSeq(df.rows, LAMBDA r : r["User Number"] = Num(user_num))

(***************************************************************************)
(* Shared-Transaction Filter: filter_shared_transactions_for_user          *)
(***************************************************************************)
\* f"User {user_number}"
UserCol(n) == "User " \o ToString(n)

\* str(value)
StrOf(v) ==
    CASE v.t = "str" -> v.s
      [] v.t = "none" -> <<"N","o","n","e">>
      [] v.t = "bool" -> IF v.b THEN <<"T","r","u","e">> ELSE <<"F","a","l","s","e">>
      [] OTHER -> <<"n","a","n">>

TruthyStrings ==
    { <<"t","r","u","e">>, <<"1">>, <<"y","e","s">>, <<"y">> }

\* _to_bool
ToBool(value) ==
    CASE value.t = "bool" -> value.b
      [] value.t = "none" -> FALSE
      [] OTHER -> Lower(Strip(StrOf(value))) \in TruthyStrings

\* the table the category matching works on: ignored when a column is missing
FilterCategoryFrame(cat_df, n) ==
    IF ~FrameEmpty(cat_df)
       /\ ("Shared" \notin cat_df.cols \/ UserCol(n) \notin cat_df.cols)
    THEN EmptyFrame
    ELSE cat_df

\* shared_categories
SharedCategories(cat_df, n) ==
    LET df == FilterCategoryFrame(cat_df, n) IN
    IF FrameEmpty(df) THEN {}
    ELSE { Lower(Strip(StrOf(df.rows[k][UserCol(n)]))) :
             k \in { j \in 1..Len(df.rows) :
                       /\ ToBool(df.rows[j]["Shared"])
                       /\ Strip(StrOf(df.rows[j][UserCol(n)])) # <<>> } }

\* whether the settings lookup of the Filter reaches the coercion without raising
FilterCoerces(df) == ~FrameEmpty(df) /\ "User Number" \in df.cols

\* the user-settings object after the Filter's lookup: coerced in place
FilterFrameAfter(df) == IF FilterCoerces(df) THEN CoerceUserNumber(df) ELSE df

\* the settings row the Filter reads, or None
FilterFlagRow(df, n) ==
    IF FilterCoerces(df) /\ RowsOfUser(CoerceUserNumber(df), n) # <<>>
    THEN RowsOfUser(CoerceUserNumber(df), n)[1]
    ELSE NoneV

\* to_share_flag ("" stands for both None and "": the code tests only its truth)
ToShareFlag(df, n) ==
    LET row == FilterFlagRow(df, n) IN
    IF IsNone(row) THEN <<>>
    ELSE Lower(Strip(StrOrEmpty(RowGet(row, "To Share Flag"))))

\* shared_account_substr (same convention)
SharedAccountSubstr(df, n) ==
    LET row == FilterFlagRow(df, n) IN
    IF IsNone(row) THEN <<>>
    ELSE Lower(Strip(StrOrEmpty(RowGet(row, "Shared Account"))))

\* _tx_has_shared_category comparing names without lower-casing them
TxHasSharedCategory_CaseSensitive(tx, shared_categories) ==
    \E k \in 1..Len(tx.categories) :
        LET name == Strip(StrOrEmpty(tx.categories[k].category_name)) IN
        /\ name # <<>>
        /\ \E shared_cat \in shared_categories :
              shared_cat # <<>> /\ In(shared_cat, name)

\* _tx_has_shared_category
TxHasSharedCategory(tx, shared_categories) ==
    \E k \in 1..Len(tx.categories) :
        LET name == Lower(Strip(StrOrEmpty(tx.categories[k].category_name))) IN
        /\ name # <<>>
        /\ \E shared_cat \in shared_categories :
              shared_cat # <<>> /\ In(shared_cat, name)

\* _tx_matches_flag comparing the flag without lower-casing it
TxMatchesFlag_CaseSensitive(tx, to_share_flag) ==
    IF to_share_flag = <<>> THEN FALSE
    ELSE LET flag == Strip(StrOrEmpty(tx.flag_color)) IN
         flag # <<>> /\ flag = to_share_flag

\* _tx_matches_flag
TxMatchesFlag(tx, to_share_flag) ==
    IF to_share_flag = <<>> THEN FALSE
    ELSE LET flag == Lower(Strip(StrOrEmpty(tx.flag_color))) IN
         flag # <<>> /\ flag = to_share_flag

\* _tx_is_shared_account_without_flag without its test of the flag
TxIsSharedAccount_IgnoringFlag(tx, shared_account_substr, to_share_flag) ==
    IF shared_account_substr = <<>> THEN FALSE
    ELSE LET acct_name == Lower(Strip(StrOrEmpty(tx.account_name))) IN
         IF acct_name = <<>> THEN FALSE
         ELSE In(shared_account_substr, acct_name)

\* _tx_is_shared_account_without_flag
TxIsSharedAccountWithoutFlag(tx, shared_account_substr, to_share_flag) ==
    IF shared_account_substr = <<>> THEN FALSE
    ELSE LET acct_name == Lower(Strip(StrOrEmpty(tx.account_name))) IN
         IF acct_name = <<>> THEN FALSE
         ELSE In(shared_account_substr, acct_name)
              /\ ~TxMatchesFlag(tx, to_share_flag)

\* str(id(tx)): the decimal address of the dict object
ObjAddr(o) == <<"9", "0", Digits[o + 1]>>

\* tx_id = str(tx.get("id") or ""): no per-object key for an empty id
DedupKey_ByValue(tx) == StrOrEmpty(tx.id)

\* tx_id = str(tx.get("id") or id(tx))
DedupKey(tx) ==
    IF StrOrEmpty(tx.id) # <<>> THEN StrOrEmpty(tx.id) ELSE ObjAddr(tx.obj)

\* whether the loop body reaches the de-duplication for tx
FilterPasses(tx, cats, flag, acct) ==
    /\ ~TxIsSharedAccountWithoutFlag(tx, acct, flag)
    /\ (TxHasSharedCategory(tx, cats) \/ TxMatchesFlag(tx, flag))

\* the loop over transactions, from position k on
RECURSIVE FilterLoop(_, _, _, _, _, _, _)
FilterLoop(txs, k, out, seen_ids, cats, flag, acct) ==
    IF k > Len(txs) THEN out
    ELSE LET tx == txs[k] IN
         IF FilterPasses(tx, cats, flag, acct) /\ DedupKey(tx) \notin seen_ids
         THEN FilterLoop(txs, k + 1, Append(out, tx),
                         seen_ids \cup {DedupKey(tx)}, cats, flag, acct)
         ELSE FilterLoop(txs, k + 1, out, seen_ids, cats, flag, acct)

\* filter_shared_transactions_for_user giving up when the rule table lacks a
\* column it reads
FilterResult_MissingColumnReturnsEmpty(txs, n, cat_df, users_df) ==
    IF FrameEmpty(FilterCategoryFrame(cat_df, n)) THEN <<>>
    ELSE FilterLoop(txs, 1, <<>>, {},
                    SharedCategories(cat_df, n),
                    ToShareFlag(users_df, n),
                    SharedAccountSubstr(users_df, n))

\* the value filter_shared_transactions_for_user returns (user_number >= 1)
FilterResult(txs, n, cat_df, users_df) ==
    IF FrameEmpty(cat_df) /\ FrameEmpty(users_df) THEN <<>>
    ELSE FilterLoop(txs, 1, <<>>, {},
                    SharedCategories(cat_df, n),
                    ToShareFlag(users_df, n),
                    SharedAccountSubstr(users_df, n))

(***************************************************************************)
(* Input data                                                              *)
(***************************************************************************)
sRent == <<"R","e","n","t">>
sHomeRent == <<"H","o","m","e"," ","R","E","N","T">>
sCoffee == <<"C","o","f","f","e","e">>
sGym == <<"G","y","m">>
sGymPadded == <<" ","g","y","m"," ">>
sGroceries == <<"G","r","o","c","e","r","y">>
sMisc == <<"M","i","s","c">>
sDefault == <<"D","e","f","a","u","l","t">>
sBlue == <<"b","l","u","e">>
sBlueCap == <<"B","l","u","e">>
sRed == <<"r","e","d">>
sGreen == <<"g","r","e","e","n">>
sPot == <<"P","o","t">>
sSharedPot == <<"S","h","a","r","e","d"," ","P","o","t">>
sChecking == <<"C","h","e","c","k","i","n","g">>
sYes == <<"Y","e","s">>
sFalse == <<"f","a","l","s","e">>
sT1 == <<"t","1">>
sT2 == <<"t","2">>
sHalf == <<"0",".","5">>
sDate == <<"2","0","2","6","-","0","1","-","0","5">>
sTravel == <<"T","r","a","v","e","l">>
sPotts == <<"P","o","t","t","s">>

SettingsRow(un, budget, shared_flag, to_share, account, pct) ==
    ("User Number" :> un) @@ ("Budget Name" :> Str(budget))
    @@ ("Shared Flag" :> Str(shared_flag)) @@ ("To Share Flag" :> Str(to_share))
    @@ ("Shared Account" :> Str(account)) @@ ("Share Percentage" :> Str(pct))

SettingsCols ==
    {"User Number", "Budget Name", "Shared Flag", "To Share Flag",
     "Shared Account", "Share Percentage"}

\* drop a column of a frame
DropCol(df, col) ==
    [cols |-> df.cols \ {col},
     rows |-> [k \in 1..Len(df.rows) |->
                 [c \in (DOMAIN df.rows[k]) \ {col} |-> df.rows[k][c]]]]

\* the Users sheet as the sheet client delivers it: every cell a string
UsersSheet ==
    [cols |-> SettingsCols,
     rows |-> << SettingsRow(Str(<<"1">>), <<"A">>, sGreen, sBlueCap, sPot, sHalf),
                 SettingsRow(Str(<<"2">>), <<"B">>, sRed, <<>>, sPot, sHalf) >>]

\* a table built in memory with numeric user numbers and no account column
UsersNumeric ==
    DropCol([cols |-> SettingsCols,
             rows |-> << SettingsRow(Num(1), <<"A">>, sGreen, sBlue, <<>>, sHalf),
                         SettingsRow(Num(2), <<"B">>, sGreen, sBlue, <<>>, sHalf) >>],
            "Shared Account")

\* a sheet whose first user has no Shared Flag and an upper-case Shared Account
UsersNoSharedFlag ==
    [cols |-> SettingsCols,
     rows |-> << SettingsRow(Str(<<"1">>), <<"A">>, <<>>, sBlue, <<"P","O","T">>, sHalf),
                 SettingsRow(Str(<<"2">>), <<"B">>, sRed, <<>>, sPot, sHalf) >>]

\* a sheet whose first user number is not numeric
UsersBadNumber ==
    [cols |-> SettingsCols,
     rows |-> << SettingsRow(Str(<<"x">>), <<"A">>, sGreen, sBlue, sPot, sHalf),
                 SettingsRow(Str(<<"2">>), <<"B">>, <<>>, sBlue, sPot, sHalf) >>]

\* a sheet whose second user names a Shared Account no account name contains
UsersCloseAccount ==
    [cols |-> SettingsCols,
     rows |-> << SettingsRow(Str(<<"1">>), <<"A">>, sGreen, sBlueCap, sPot, sHalf),
                 SettingsRow(Str(<<"2">>), <<"B">>, sRed, <<>>, sPotts, sHalf) >>]

UsersFrames ==
    { UsersSheet, UsersNumeric, UsersBadNumber,
      DropCol(UsersSheet, "User Number"), EmptyFrame }

RuleRow(shared, alias, u1, u2) ==
    ("Shared" :> shared) @@ ("Alias" :> Str(alias))
    @@ ("User 1" :> Str(u1)) @@ ("User 2" :> Str(u2))

RuleCols == {"Shared", "Alias", "User 1", "User 2"}

RulesSheet ==
    [cols |-> RuleCols,
     rows |-> << RuleRow(Bool(TRUE), <<>>, sRent, sGroceries),
                 RuleRow(Str(sFalse), <<>>, sCoffee, sRent),
                 RuleRow(Str(sYes), <<>>, sGymPadded, sGym),
                 RuleRow(Str(sFalse), <<>>, sMisc, <<>>),
                 RuleRow(Str(<<"0">>), sDefault, <<>>, sMisc) >>]

RuleFrames ==
    { RulesSheet, DropCol(RulesSheet, "Shared"), DropCol(RulesSheet, "User 2"),
      EmptyFrame }

Category(name, amount) ==
    [category_name |-> Str(name), amount |-> amount, memo |-> Str(<<>>)]

\* the amount of a record: the sum of the amounts of its lines
RECURSIVE SumAmounts(_)
SumAmounts(cats) ==
    IF cats = <<>> THEN 0 ELSE Head(cats).amount.n + SumAmounts(Tail(cats))

Tx(id, flag, account, cats) ==
    [obj |-> 0, id |-> Str(id), date |-> [t |-> "date", iso |-> sDate],
     flag_color |-> Str(flag),
     account_name |-> Str(account), payee_name |-> Str(<<"P">>),
     total_amount |-> Num(SumAmounts(cats)), categories |-> cats]

\* normalized feed records the calls are tried on
FeedTxs ==
    { Tx(sT1, <<>>, sChecking, << Category(sRent, Num(300)) >>),
      Tx(sT1, <<>>, sSharedPot, << Category(sHomeRent, Num(300)),
                                     Category(sGym, Num(50)) >>),
      Tx(sT2, sBlueCap, sChecking, << Category(sCoffee, Num(100)) >>),
      Tx(sT2, sRed, sChecking, << Category(sCoffee, Num(100)) >>),
      Tx(<<>>, <<>>, sChecking, << Category(sCoffee, Num(100)),
                                   Category(sHomeRent, Num(201)) >>),
      Tx(<<>>, sBlue, sSharedPot, << Category(<<>>, Num(100)) >>),
      Tx(<<>>, <<>>, <<>>, << Category(sGym, Num(100)) >>),
      Tx(sT2, <<>>, sSharedPot, << >>) }

\* lists of at most MaxTx dict objects; position k holds object k, or again an
\* object that an earlier position holds
TxListsOfLen(n) ==
    { [k \in 1..n |-> [l[k][1] EXCEPT !.obj = l[k][2]]] :
        l \in { m \in [1..n -> FeedTxs \X (1..n)] :
                  \A k \in 1..n :
                      /\ m[k][2] <= k
                      /\ m[m[k][2]] = m[k] } }

TxLists == UNION { TxListsOfLen(n) : n \in 0..MaxTx }

UserNumbers == {0, 1, 2}

(***************************************************************************)
(* Calls of the Filter                                                     *)
(***************************************************************************)
NoFrame == [cols |-> {}, rows |-> <<>>, absent |-> TRUE]
NoBudgets == <<>>
NoUser == [user_num |-> 0, budget_id |-> NoneV]
NoProvider == <<>>
NoFetch == [since_date |-> NoneV]
NoLookup == [name |-> NoneV]

InitFilter ==
    /\ \E df \in UsersFrames : frames = [caller |-> df, copy |-> NoFrame]
    /\ category_mappings_df \in RuleFrames
    /\ transactions \in TxLists
    /\ user_number \in UserNumbers
    /\ pc = "ready"
    /\ filtered = <<>>
    /\ first_filtered = <<>>
    /\ frames0 = frames
    /\ ncalls = 0
    /\ idx = 0
    /\ results = <<>>
    /\ calls = <<>>
    /\ budgets = NoBudgets
    /\ source_user = NoUser
    /\ target_user = NoUser
    /\ grouped_results = <<>>
    /\ runs = <<>>
    /\ provider = NoProvider
    /\ fetch = NoFetch
    /\ lookup = NoLookup

\* filter_shared_transactions_for_user(transactions, user_number,
\*     category_mappings_df=..., user_settings_df=<the caller's object>)
FilterCall ==
    /\ pc \in {"ready", "returned"}
    /\ ncalls < MaxCalls
    /\ user_number >= 1
    /\ filtered' = FilterResult(transactions, user_number,
                                category_mappings_df, frames.caller)
    /\ frames' = [frames EXCEPT !.caller =
                    IF FrameEmpty(category_mappings_df) /\ FrameEmpty(frames.caller)
                    THEN @ ELSE FilterFrameAfter(@)]
    /\ first_filtered' = IF ncalls = 0 THEN filtered' ELSE first_filtered
    /\ ncalls' = ncalls + 1
    /\ pc' = "returned"
    /\ UNCHANGED <<transactions, user_number, calls, runs>>
    /\ UNCHANGED <<FetchVars, ConfigVars, LoopVars, SplitVars>>

\* user_number < 1: ValueError before anything is read
FilterRaise ==
    /\ pc = "ready"
    /\ user_number < 1
    /\ pc' = "raised"
    /\ UNCHANGED <<frames, transactions, ncalls, calls, runs>>
    /\ UNCHANGED <<FetchVars, ConfigVars, FilterVars, LoopVars, SplitVars>>

NextFilter == FilterCall \/ FilterRaise

SpecFilter == InitFilter /\ [][NextFilter]_vars

(***************************************************************************)
(* The Filter's contract, stated on the caller's inputs                    *)
(***************************************************************************)
\* the caller's settings table as it was handed over
UsersBefore == frames0.caller

\* the settings row of user n: the first whose User Number is numerically n
SettingsRowOf(n) ==
    IF "User Number" \in UsersBefore.cols
       /\ \E k \in 1..Len(UsersBefore.rows) :
             ToNumericCell(UsersBefore.rows[k]["User Number"]) = Num(n)
    THEN UsersBefore.rows[
            CHOOSE k \in 1..Len(UsersBefore.rows) :
               /\ ToNumericCell(UsersBefore.rows[k]["User Number"]) = Num(n)
               /\ \A j \in 1..(k - 1) :
                     ToNumericCell(UsersBefore.rows[j]["User Number"]) # Num(n)]
    ELSE NoneV

\* a setting of user n, trimmed and lower-cased ("" when there is none)
SettingOf(n, col) ==
    IF IsNone(SettingsRowOf(n)) THEN <<>>
    ELSE Lower(Strip(StrOrEmpty(RowGet(SettingsRowOf(n), col))))

\* tx has a category name containing user n's name of a category marked Shared
HasSharedCategoryOf(tx, n) ==
    /\ "Shared" \in category_mappings_df.cols
    /\ UserCol(n) \in category_mappings_df.cols
    /\ \E r \in 1..Len(category_mappings_df.rows), c \in 1..Len(tx.categories) :
          LET row == category_mappings_df.rows[r]
              name == Lower(Strip(StrOf(row[UserCol(n)])))
          IN /\ ToBool(row["Shared"])
             /\ name # <<>>
             /\ In(name, Lower(StrOrEmpty(tx.categories[c].category_name)))

\* tx carries user n's To Share Flag: lower-cased, non-empty and equal
HasToShareFlagOf(tx, n) ==
    /\ Lower(StrOrEmpty(tx.flag_color)) # <<>>
    /\ Lower(StrOrEmpty(tx.flag_color)) = SettingOf(n, "To Share Flag")

\* tx lies in user n's shared account
InSharedAccountOf(tx, n) ==
    /\ SettingOf(n, "Shared Account") # <<>>
    /\ In(SettingOf(n, "Shared Account"), Lower(StrOrEmpty(tx.account_name)))

\* a and b are the same entry for the de-duplication: the same non-empty id,
\* or the same dict object when the id is empty
SameEntry(a, b) ==
    IF StrOrEmpty(a.id) # <<>> THEN StrOrEmpty(b.id) = StrOrEmpty(a.id)
    ELSE StrOrEmpty(b.id) = <<>> /\ b.obj = a.obj

\* the result holds an entry for tx
Included(tx) == \E j \in 1..Len(filtered) : SameEntry(tx, filtered[j])

\* the result holds the dict object tx itself
InResult(tx) == \E j \in 1..Len(filtered) : filtered[j] = tx

FilterReturned == pc = "returned"

\* C5 as stated: every transaction with a shared category of the user is in the
\* user's result
C5_SharedCategoryAlwaysIncluded ==
    FilterReturned =>
        \A k \in 1..Len(transactions) :
            HasSharedCategoryOf(transactions[k], user_number)
                => Included(transactions[k])

\* C5 amended: every transaction with a shared category of the user is in the
\* user's result, unless it lies in the user's shared account without carrying
\* the user's To Share Flag
C5_SharedCategoryIncludedUnlessSharedAccount ==
    FilterReturned =>
        \A k \in 1..Len(transactions) :
            /\ HasSharedCategoryOf(transactions[k], user_number)
            /\ ~(/\ InSharedAccountOf(transactions[k], user_number)
                 /\ ~HasToShareFlagOf(transactions[k], user_number))
            => Included(transactions[k])

\* a transaction matched only case-insensitively, and not whole, by a shared
\* category has been included
C5_Witness ==
    /\ FilterReturned
    /\ \E k \in 1..Len(transactions) :
          /\ HasSharedCategoryOf(transactions[k], user_number)
          /\ ~HasToShareFlagOf(transactions[k], user_number)
          /\ \E c \in 1..Len(transactions[k].categories) :
                transactions[k].categories[c].category_name = Str(sHomeRent)
          /\ \E j \in 1..Len(filtered) : filtered[j] = transactions[k]

\* C6: only transactions with a shared category or the To Share Flag are in the
\* result; a transaction without a shared category that carries the flag is in
\* it; a transaction with neither is not
C6_IncludedOnlyByCategoryOrFlag ==
    FilterReturned =>
        /\ \A j \in 1..Len(filtered) :
              \/ HasSharedCategoryOf(filtered[j], user_number)
              \/ HasToShareFlagOf(filtered[j], user_number)
        /\ \A k \in 1..Len(transactions) :
              /\ ~HasSharedCategoryOf(transactions[k], user_number)
              /\ HasToShareFlagOf(transactions[k], user_number)
              => Included(transactions[k])
        /\ \A k \in 1..Len(transactions) :
              /\ ~HasSharedCategoryOf(transactions[k], user_number)
              /\ ~HasToShareFlagOf(transactions[k], user_number)
              => \A j \in 1..Len(filtered) : filtered[j] # transactions[k]

\* a transaction without a shared category was included for its flag, and one
\* with neither was left out
C6_Witness ==
    /\ FilterReturned
    /\ \E k \in 1..Len(transactions) :
          /\ ~HasSharedCategoryOf(transactions[k], user_number)
          /\ HasToShareFlagOf(transactions[k], user_number)
          /\ \E j \in 1..Len(filtered) : filtered[j] = transactions[k]
    /\ \E k \in 1..Len(transactions) :
          /\ ~HasSharedCategoryOf(transactions[k], user_number)
          /\ ~HasToShareFlagOf(transactions[k], user_number)
          /\ StrOrEmpty(transactions[k].flag_color) # <<>>

\* lower-cased flag of tx equals user n's lower-cased To Share Flag, empty or not
FlagEqualsToShareFlag(tx, n) ==
    Lower(StrOrEmpty(tx.flag_color)) = SettingOf(n, "To Share Flag")

\* C7 as stated: a transaction that a shared category or the flag would include
\* is left out exactly when it lies in the shared account and its flag differs
\* from the To Share Flag (two empty flags counting as equal)
C7_ExcludedUnlessFlagEqual ==
    FilterReturned =>
        \A k \in 1..Len(transactions) :
            LET tx == transactions[k]
                matched == \/ HasSharedCategoryOf(tx, user_number)
                           \/ HasToShareFlagOf(tx, user_number)
                excluded == /\ InSharedAccountOf(tx, user_number)
                            /\ ~FlagEqualsToShareFlag(tx, user_number)
            IN /\ excluded => ~InResult(tx)
               /\ matched /\ ~excluded => Included(tx)

\* C7 amended: a transaction that a shared category or the flag would include is
\* left out exactly when it lies in the shared account and does not carry a
\* non-empty flag equal to the To Share Flag; two empty flags do not lift the
\* exclusion
C7_ExcludedUnlessFlagCarried ==
    FilterReturned =>
        \A k \in 1..Len(transactions) :
            LET tx == transactions[k]
                matched == \/ HasSharedCategoryOf(tx, user_number)
                           \/ HasToShareFlagOf(tx, user_number)
                excluded == /\ InSharedAccountOf(tx, user_number)
                            /\ ~HasToShareFlagOf(tx, user_number)
            IN /\ excluded => ~InResult(tx)
               /\ matched /\ ~excluded => Included(tx)

\* a transaction with a shared category was left out for its account, and a
\* flagged one in the shared account was kept
C7_Witness ==
    /\ FilterReturned
    /\ \E k \in 1..Len(transactions) :
          /\ HasSharedCategoryOf(transactions[k], user_number)
          /\ InSharedAccountOf(transactions[k], user_number)
          /\ ~HasToShareFlagOf(transactions[k], user_number)
          /\ ~InResult(transactions[k])
    /\ \E k \in 1..Len(transactions) :
          /\ InSharedAccountOf(transactions[k], user_number)
          /\ HasToShareFlagOf(transactions[k], user_number)
          /\ InResult(transactions[k])

\* tx is one the Filter keeps if no earlier entry stands for it
Kept(tx, n) ==
    /\ HasSharedCategoryOf(tx, n) \/ HasToShareFlagOf(tx, n)
    /\ ~(InSharedAccountOf(tx, n) /\ ~HasToShareFlagOf(tx, n))

\* C8: the result has at most one entry per id, each entry is the first kept
\* input of its id, the entries stand in input order, and distinct objects
\* with an empty id are all retained however equal their values
C8_DedupFirstSeenInOrder ==
    FilterReturned =>
        /\ \A i, j \in 1..Len(filtered) :
              i # j /\ StrOrEmpty(filtered[i].id) # <<>>
              => StrOrEmpty(filtered[i].id) # StrOrEmpty(filtered[j].id)
        /\ \E f \in [1..Len(filtered) -> 1..Len(transactions)] :
              /\ \A i, j \in 1..Len(filtered) : i < j => f[i] < f[j]
              /\ \A j \in 1..Len(filtered) :
                    /\ filtered[j] = transactions[f[j]]
                    /\ \A p \in 1..(f[j] - 1) :
                          Kept(transactions[p], user_number)
                          => ~SameEntry(transactions[p], filtered[j])
        /\ \A k \in 1..Len(transactions) :
              /\ StrOrEmpty(transactions[k].id) = <<>>
              /\ Kept(transactions[k], user_number)
              => \E j \in 1..Len(filtered) :
                    filtered[j].obj = transactions[k].obj

\* two kept inputs shared an id and one entry was retained, or two equal
\* objects without id were both retained
C8_Witness ==
    /\ FilterReturned
    /\ \E i, j \in 1..Len(transactions) :
          /\ i < j
          /\ Kept(transactions[i], user_number)
          /\ Kept(transactions[j], user_number)
          /\ \/ /\ StrOrEmpty(transactions[i].id) # <<>>
                /\ transactions[i].id = transactions[j].id
                /\ transactions[i] # transactions[j]
                /\ Len(filtered) = 1
             \/ /\ StrOrEmpty(transactions[i].id) = <<>>
                /\ transactions[i].obj # transactions[j].obj
                /\ [transactions[i] EXCEPT !.obj = 0]
                     = [transactions[j] EXCEPT !.obj = 0]
                /\ Len(filtered) = 2

\* C9: after a call both tables hold the values they held before it, and a
\* second call returns what the first returned
C9_TablesUntouched ==
    FilterReturned =>
        /\ frames.caller = UsersBefore
        /\ ncalls = 2 => filtered = first_filtered

\* the rule table has rows but lacks the Shared column or user n's column
LacksCategoryColumn(n) ==
    /\ ~FrameEmpty(category_mappings_df)
    /\ \/ "Shared" \notin category_mappings_df.cols
       \/ UserCol(n) \notin category_mappings_df.cols

\* C11: when the rule table lacks the Shared column or the user's column, the
\* call does not raise, every transaction of the result carries the user's To
\* Share Flag (none is there for its category), every transaction carrying the
\* flag is in the result, and a transaction of the shared account without the
\* flag is not
C11_MissingColumnsDisableCategories ==
    user_number >= 1 /\ LacksCategoryColumn(user_number) =>
        /\ pc # "raised"
        /\ FilterReturned =>
              /\ \A j \in 1..Len(filtered) :
                    HasToShareFlagOf(filtered[j], user_number)
              /\ \A k \in 1..Len(transactions) :
                    HasToShareFlagOf(transactions[k], user_number)
                    => Included(transactions[k])
              /\ \A k \in 1..Len(transactions) :
                    /\ InSharedAccountOf(transactions[k], user_number)
                    /\ ~HasToShareFlagOf(transactions[k], user_number)
                    => ~InResult(transactions[k])

\* with a rule table lacking a column, a flagged transaction was included and
\* one whose category names a rule of the table was left out
C11_Witness ==
    /\ FilterReturned
    /\ LacksCategoryColumn(user_number)
    /\ \E k \in 1..Len(transactions) :
          /\ HasToShareFlagOf(transactions[k], user_number)
          /\ InResult(transactions[k])
    /\ \E k \in 1..Len(transactions) :
          /\ ~InSharedAccountOf(transactions[k], user_number)
          /\ \E c \in 1..Len(transactions[k].categories) :
                transactions[k].categories[c].category_name = Str(sRent)
          /\ ~InResult(transactions[k])

\* tx.get(key): None when the key is absent
Get(tx, key) == IF key \in DOMAIN tx THEN tx[key] ELSE NoneV

\* tx.get("categories") or []
CategoriesOf(tx) == IF "categories" \in DOMAIN tx THEN tx.categories ELSE <<>>

(***************************************************************************)
(* Upsert Reconciler: upsert_shared_transactions                           *)
(***************************************************************************)
\* a Python float holding m hundredths
Float(m) == [t |-> "float", m |-> m]

\* a datetime.date object
DateV(iso) == [t |-> "date", iso |-> iso]

\* the methods of a client that had patch as well
ClientMethods_WithPatch == {"get", "post", "patch"}

\* the methods the budgeting client offers besides its private ones
ClientMethods == {"get", "post"}

\* truthiness of a str-or-None value
Truthy(v) == v.t = "str" /\ v.s # <<>>

\* whether int(v) raises
IntRaises(v) ==
    CASE v.t = "num" -> FALSE
      [] v.t = "float" -> FALSE
      [] v.t = "str" -> ToNumericCell(v) = NaN
      [] OTHER -> TRUE

\* int(v): floats are truncated towards zero
IntCast(v) ==
    CASE v.t = "num" -> v.n
      [] v.t = "float" ->
            IF v.m >= 0 THEN v.m \div 100 ELSE -((-v.m) \div 100)
      [] OTHER -> ToNumericCell(v).n

\* _shared_flag_for_user: whether the lookup reaches the in-place coercion
UpsertCoerces(df) == "User Number" \in df.cols

\* the user-settings object after _shared_flag_for_user
UpsertFrameAfter(df) == IF UpsertCoerces(df) THEN CoerceUserNumber(df) ELSE df

\* _shared_flag_for_user
SharedFlagForUser(df, user_num) ==
    IF UpsertCoerces(df) /\ RowsOfUser(CoerceUserNumber(df), user_num) # <<>>
    THEN Lower(Strip(StrOrEmpty(
            RowGet(RowsOfUser(CoerceUserNumber(df), user_num)[1], "Shared Flag"))))
    ELSE <<>>

\* the record the loop is at
CurTx == transactions[idx]

\* user_num is None or not budget_id
MissingUserOrBudget(tx) ==
    IsNone(Get(tx, "user_num")) \/ ~Truthy(Get(tx, "budget_id"))

\* the create goes on whatever the account_id
HasAccount_Unchecked(tx) == TRUE

\* account_id is given (`if not account_id` skips the record)
HasAccount(tx) == Truthy(Get(tx, "account_id"))

\* payload of the update
PatchPayload(tx, shared_flag) ==
    [transactions |-> << [id |-> Get(tx, "id"), flag_color |-> Str(shared_flag)] >>]

\* the subtransactions list of the create
Subtransactions(tx) ==
    [k \in 1..Len(CategoriesOf(tx)) |->
        [amount |-> IntCast(CategoriesOf(tx)[k].amount),
         category_id |-> CategoriesOf(tx)[k].category_id,
         memo |-> StrOrEmpty(CategoriesOf(tx)[k].memo)]]

\* whether building the create body raises
BodyRaises(tx) ==
    \/ \E k \in 1..Len(CategoriesOf(tx)) : IntRaises(CategoriesOf(tx)[k].amount)
    \/ IF ~IsNone(Get(tx, "total_amount")) THEN IntRaises(Get(tx, "total_amount"))
       ELSE IntRaises(Get(tx, "amount"))
    \/ Len(CategoriesOf(tx)) = 1 /\ IsNone(CategoriesOf(tx)[1].memo)

\* tx.get("date").isoformat() if hasattr(tx.get("date"), "isoformat") else
\* tx.get("date")
IsoFormat(v) == IF v.t = "date" THEN Str(v.iso) ELSE v

\* transaction_body, were the subtransactions kept for a single category
RawBody_KeepsSubtransactions(tx) ==
    ("account_id" :> Get(tx, "account_id"))
    @@ ("date" :> IsoFormat(Get(tx, "date")))
    @@ ("amount" :> Num(IF ~IsNone(Get(tx, "total_amount"))
                        THEN IntCast(Get(tx, "total_amount"))
                        ELSE IntCast(Get(tx, "amount"))))
    @@ ("payee_name" :> Get(tx, "payee_name"))
    @@ ("memo" :> Str(StrOrEmpty(Get(tx, "memo"))))
    @@ ("subtransactions" :>
           IF Subtransactions(tx) = <<>> THEN NoneV
           ELSE [t |-> "list", l |-> Subtransactions(tx)])

\* transaction_body before the None-valued keys are dropped
RawBody(tx) ==
    LET base == ("account_id" :> Get(tx, "account_id"))
                @@ ("date" :> IsoFormat(Get(tx, "date")))
                @@ ("amount" :> Num(IF ~IsNone(Get(tx, "total_amount"))
                                    THEN IntCast(Get(tx, "total_amount"))
                                    ELSE IntCast(Get(tx, "amount"))))
                @@ ("payee_name" :> Get(tx, "payee_name"))
                @@ ("memo" :> Str(StrOrEmpty(Get(tx, "memo"))))
    IN IF Len(CategoriesOf(tx)) = 1
       THEN ("category_id" :> CategoriesOf(tx)[1].category_id)
            @@ [base EXCEPT !["memo"] =
                   Str(@.s \o StrOrEmpty(CategoriesOf(tx)[1].memo))]
       ELSE base @@ ("subtransactions" :>
                        IF Subtransactions(tx) = <<>> THEN NoneV
                        ELSE [t |-> "list", l |-> Subtransactions(tx)])

\* transaction_body as sent
CreateBody(tx) ==
    LET raw == RawBody(tx)
    IN [k \in { c \in DOMAIN raw : ~IsNone(raw[c]) } |-> raw[k]]

\* outcomes of client.patch(...): the client has no such method, the
\* AttributeError is caught with every other exception
PatchOutcomes ==
    IF "patch" \in ClientMethods THEN {"ok", "error"} ELSE {"no_method"}

\* the requests the service has refused
Refused == { c \in 1..Len(calls) : calls[c].outcome = "error" }

\* outcomes of client.post(...)
PostOutcomes ==
    IF "post" \notin ClientMethods THEN {"no_method"}
    ELSE IF Cardinality(Refused) < MaxErrors THEN {"ok", "error"}
    ELSE {"ok"}

UpsertFrameVars == <<FetchVars, ConfigVars, FilterVars, SplitVars, ncalls, transactions, runs>>

\* records the Reconciler is tried on
RecFields(id, user_num, budget, account, total, cats) ==
    [obj |-> 0, id |-> id, user_num |-> user_num, budget_id |-> budget,
     account_id |-> account, total_amount |-> total, amount |-> NoneV,
     memo |-> NoneV, date |-> Str(<<"d">>), payee_name |-> Str(<<"P">>),
     flag_color |-> NoneV, account_name |-> Str(sPot), categories |-> cats]

BuiltCategory(amount, memo) ==
    [category_name |-> Str(sRent), category_id |-> Str(<<"c">>),
     amount |-> amount, memo |-> memo]

UpsertRecords ==
    { RecFields(Str(sT1), Num(1), Str(<<"A">>), NoneV, Num(300),
                << BuiltCategory(Num(300), Str(<<>>)) >>),
      RecFields(Str(sT2), Str(<<"2">>), Str(<<"B">>), NoneV, NoneV, << >>),
      RecFields(NoneV, Num(2), Str(<<"B">>), Str(<<"a">>), Float(15050),
                << BuiltCategory(Float(15050), Str(<<"m">>)) >>),
      RecFields(NoneV, Num(1), Str(<<"A">>), Str(<<"a">>), Float(-25100),
                << BuiltCategory(Float(-15050), Str(<<>>)),
                   BuiltCategory(Float(-10050), Str(<<>>)) >>),
      RecFields(Str(<<>>), Num(2), Str(<<"B">>), NoneV, Float(100), << >>),
      RecFields(NoneV, NoneV, Str(<<"B">>), Str(<<"a">>), Num(100), << >>),
      RecFields(NoneV, Num(1), Str(<<>>), Str(<<"a">>), Num(100), << >>),
      RecFields(NoneV, Num(2), Str(<<"B">>), Str(<<"a">>), Num(100),
                << BuiltCategory(NoneV, Str(<<>>)),
                   BuiltCategory(Num(100), Str(<<>>)) >>),
      RecFields(NoneV, Num(2), Str(<<"B">>), Str(<<"a">>), NoneV, << >>),
      RecFields(NoneV, Num(2), Str(<<"B">>), Str(<<"a">>), Num(100),
                << BuiltCategory(Num(100), NoneV) >>),
      RecFields(NoneV, Str(<<"x">>), Str(<<"B">>), Str(<<"a">>), Num(100), << >>),
      [RecFields(NoneV, Num(1), Str(<<"A">>), Str(<<"a">>), Num(100), << >>)
          EXCEPT !.date = DateV(sDate)],
      [RecFields(NoneV, Num(2), Str(<<"B">>), Str(<<"a">>), NoneV,
                 << BuiltCategory(Num(70), Str(<<"m">>)) >>)
          EXCEPT !.amount = Num(70), !.memo = Str(<<"r">>)] }

RecordLists ==
    UNION { [1..n -> UpsertRecords] : n \in 0..MaxTx }

InitUpsert ==
    /\ \E df \in {UsersSheet, UsersNumeric, EmptyFrame} :
          frames = [caller |-> df, copy |-> NoFrame]
    /\ category_mappings_df = RulesSheet
    /\ transactions \in RecordLists
    /\ user_number = 0
    /\ pc = "loop"
    /\ filtered = <<>>
    /\ first_filtered = <<>>
    /\ frames0 = frames
    /\ ncalls = 0
    /\ idx = 1
    /\ results = <<>>
    /\ calls = <<>>
    /\ budgets = NoBudgets
    /\ source_user = NoUser
    /\ target_user = NoUser
    /\ grouped_results = <<>>
    /\ runs = <<>>
    /\ provider = NoProvider
    /\ fetch = NoFetch
    /\ lookup = NoLookup

InLoop == pc = "loop" /\ idx <= Len(transactions)

\* the record lacks user_num or budget_id: skipped
UpsertSkipNoUser ==
    /\ InLoop
    /\ MissingUserOrBudget(CurTx)
    /\ idx' = idx + 1
    /\ UNCHANGED <<frames, pc, results, calls>>
    /\ UNCHANGED UpsertFrameVars

\* int(user_num) raises: the call ends with the exception
UpsertRaiseUserNum ==
    /\ InLoop
    /\ ~MissingUserOrBudget(CurTx)
    /\ IntRaises(Get(CurTx, "user_num"))
    /\ pc' = "raised"
    /\ UNCHANGED <<frames, idx, results, calls>>
    /\ UNCHANGED UpsertFrameVars

\* the record has an id: update its flag
UpsertUpdate ==
    /\ InLoop
    /\ ~MissingUserOrBudget(CurTx)
    /\ ~IntRaises(Get(CurTx, "user_num"))
    /\ Truthy(Get(CurTx, "id"))
    /\ \E outcome \in PatchOutcomes :
          LET shared_flag == SharedFlagForUser(frames.caller, IntCast(Get(CurTx, "user_num")))
              call == [method |-> "patch", rec |-> idx,
                       budget_id |-> Get(CurTx, "budget_id"),
                       json |-> PatchPayload(CurTx, shared_flag),
                       outcome |-> outcome]
          IN /\ calls' = IF outcome = "no_method" THEN calls
                         ELSE Append(calls, call)
             /\ results' =
                  IF outcome = "ok"
                  THEN Append(results,
                              [action |-> "update", transaction_id |-> Get(CurTx, "id"),
                               budget_id |-> Get(CurTx, "budget_id"),
                               response |-> [call |-> Len(calls')]])
                  ELSE results
    /\ frames' = [frames EXCEPT !.caller = UpsertFrameAfter(@)]
    /\ idx' = idx + 1
    /\ UNCHANGED pc
    /\ UNCHANGED UpsertFrameVars

\* no id and no account_id: skipped
UpsertSkipNoAccount ==
    /\ InLoop
    /\ ~MissingUserOrBudget(CurTx)
    /\ ~IntRaises(Get(CurTx, "user_num"))
    /\ ~Truthy(Get(CurTx, "id"))
    /\ ~HasAccount(CurTx)
    /\ frames' = [frames EXCEPT !.caller = UpsertFrameAfter(@)]
    /\ idx' = idx + 1
    /\ UNCHANGED <<pc, results, calls>>
    /\ UNCHANGED UpsertFrameVars

\* building the create body raises: the call ends with the exception
UpsertRaiseBody ==
    /\ InLoop
    /\ ~MissingUserOrBudget(CurTx)
    /\ ~IntRaises(Get(CurTx, "user_num"))
    /\ ~Truthy(Get(CurTx, "id"))
    /\ HasAccount(CurTx)
    /\ BodyRaises(CurTx)
    /\ frames' = [frames EXCEPT !.caller = UpsertFrameAfter(@)]
    /\ pc' = "raised"
    /\ UNCHANGED <<idx, results, calls>>
    /\ UNCHANGED UpsertFrameVars

\* no id, an account_id and a body: create
UpsertCreate ==
    /\ InLoop
    /\ ~MissingUserOrBudget(CurTx)
    /\ ~IntRaises(Get(CurTx, "user_num"))
    /\ ~Truthy(Get(CurTx, "id"))
    /\ HasAccount(CurTx)
    /\ ~BodyRaises(CurTx)
    /\ \E outcome \in PostOutcomes :
          LET call == [method |-> "post", rec |-> idx,
                       budget_id |-> Get(CurTx, "budget_id"),
                       json |-> [transaction |-> CreateBody(CurTx)],
                       outcome |-> outcome]
          IN /\ calls' = IF outcome = "no_method" THEN calls
                         ELSE Append(calls, call)
             /\ results' =
                  IF outcome = "ok"
                  THEN Append(results,
                              [action |-> "create", budget_id |-> Get(CurTx, "budget_id"),
                               response |-> [call |-> Len(calls')]])
                  ELSE results
    /\ frames' = [frames EXCEPT !.caller = UpsertFrameAfter(@)]
    /\ idx' = idx + 1
    /\ UNCHANGED pc
    /\ UNCHANGED UpsertFrameVars

\* the list is exhausted: return results
UpsertReturn ==
    /\ pc = "loop"
    /\ idx > Len(transactions)
    /\ pc' = "returned"
    /\ UNCHANGED <<frames, idx, results, calls>>
    /\ UNCHANGED UpsertFrameVars

NextUpsert ==
    \/ UpsertSkipNoUser
    \/ UpsertRaiseUserNum
    \/ UpsertUpdate
    \/ UpsertSkipNoAccount
    \/ UpsertRaiseBody
    \/ UpsertCreate
    \/ UpsertReturn

SpecUpsert == InitUpsert /\ [][NextUpsert]_vars

(***************************************************************************)
(* The Reconciler's contract                                               *)
(***************************************************************************)
\* record k carries user_num and budget_id
Eligible(k) ==
    ~IsNone(Get(transactions[k], "user_num")) /\ Truthy(Get(transactions[k], "budget_id"))

\* the loop has gone past record k
Processed(k) == k < idx

\* the requests received for record k with the given method
CallsFor(k, method) ==
    { c \in 1..Len(calls) : calls[c].rec = k /\ calls[c].method = method }

\* the result entries of the given action that answer a request for record k
ResultsFor(k, action) ==
    { j \in 1..Len(results) :
        /\ results[j].action = action
        /\ calls[results[j].response.call].rec = k }

\* the Shared Flag of the record's user in the caller's settings
SharedFlagOfRecord(k) ==
    IF IntRaises(Get(transactions[k], "user_num")) THEN <<>>
    ELSE SettingOf(IntCast(Get(transactions[k], "user_num")), "Shared Flag")

\* C1: every record with user_num, budget_id and a non-empty id yields exactly
\* one "update" entry carrying its id and budget, after a patch request that
\* sets flag_color to the Shared Flag of its user
C1_IdRecordUpdated ==
    \A k \in 1..Len(transactions) :
        Processed(k) /\ Eligible(k) /\ Truthy(Get(transactions[k], "id"))
        => /\ Cardinality(ResultsFor(k, "update")) = 1
           /\ \A j \in ResultsFor(k, "update") :
                 /\ results[j].transaction_id = Get(transactions[k], "id")
                 /\ results[j].budget_id = Get(transactions[k], "budget_id")
                 /\ calls[results[j].response.call].method = "patch"
                 /\ calls[results[j].response.call].json.transactions[1].flag_color
                       = Str(SharedFlagOfRecord(k))

\* C2 as stated: for a record with user_num and budget_id and no id, the create
\* request is issued and a "create" entry produced exactly if it has an
\* account_id
C2_CreateIffAccount ==
    \A k \in 1..Len(transactions) :
        Processed(k) /\ Eligible(k) /\ ~Truthy(Get(transactions[k], "id"))
        => ( /\ CallsFor(k, "post") # {}
             /\ ResultsFor(k, "create") # {} )
           <=> Truthy(Get(transactions[k], "account_id"))

\* C2 amended: for a record with user_num and budget_id and no id, once
\* processed the create request is issued exactly if it has an account_id; a
\* "create" entry is produced exactly if that request was issued and succeeded;
\* without account_id there is neither a request nor an entry
C2_CreateIffAccountAndSuccess ==
    \A k \in 1..Len(transactions) :
        Eligible(k) /\ ~Truthy(Get(transactions[k], "id"))
        => /\ Processed(k) =>
                (CallsFor(k, "post") # {} <=> Truthy(Get(transactions[k], "account_id")))
           /\ Cardinality(CallsFor(k, "post")) <= 1
           /\ ResultsFor(k, "create") # {}
                <=> /\ Truthy(Get(transactions[k], "account_id"))
                    /\ \E c \in CallsFor(k, "post") : calls[c].outcome = "ok"
           /\ Cardinality(ResultsFor(k, "create")) <= 1
           /\ ~Truthy(Get(transactions[k], "account_id"))
                => /\ \A c \in 1..Len(calls) : calls[c].rec # k
                   /\ ResultsFor(k, "create") = {}

\* the call returned after one record was created, one had its create refused
\* by the service or lacked an account
C2_Witness ==
    /\ pc = "returned"
    /\ \E k \in 1..Len(transactions) :
          /\ Eligible(k) /\ ~Truthy(Get(transactions[k], "id"))
          /\ Truthy(Get(transactions[k], "account_id"))
          /\ ResultsFor(k, "create") # {}
    /\ \E k \in 1..Len(transactions) :
          /\ Eligible(k) /\ ~Truthy(Get(transactions[k], "id"))
          /\ ResultsFor(k, "create") = {}

\* C3: the call never ends with an exception, a record whose request failed
\* leaves no entry, and the records after a failing one are processed
C3_NeverRaises ==
    /\ pc # "raised"
    /\ \A j \in 1..Len(results) : calls[results[j].response.call].outcome = "ok"
    /\ pc = "returned" => idx = Len(transactions) + 1

\* the create requests made so far
Creates == { c \in 1..Len(calls) : calls[c].method = "post" }

\* the record a create request was made for, and the body it carried
RecordOf(c) == transactions[calls[c].rec]
BodyOf(c) == calls[c].json.transaction

\* C24: the body of a create for a record with one category line carries that
\* line's category_id, the record memo followed by the line memo and no
\* subtransactions; for a record with two or more lines it carries one
\* subtransaction per line and no category_id of its own; its amount is
\* int(total_amount), or int(amount) when total_amount is None, and none of
\* its fields is None
C24_CreateBodyShape ==
    \A c \in Creates :
        LET tx == RecordOf(c)
            body == BodyOf(c)
            cats == CategoriesOf(tx)
        IN /\ Len(cats) = 1 =>
                /\ Get(body, "category_id") = cats[1].category_id
                /\ body.memo = Str(StrOrEmpty(Get(tx, "memo")) \o cats[1].memo.s)
                /\ "subtransactions" \notin DOMAIN body
           /\ Len(cats) >= 2 =>
                /\ "subtransactions" \in DOMAIN body
                /\ "category_id" \notin DOMAIN body
                /\ Len(body.subtransactions.l) = Len(cats)
                /\ \A k \in 1..Len(cats) :
                      /\ body.subtransactions.l[k].category_id = cats[k].category_id
                      /\ body.subtransactions.l[k].amount = IntCast(cats[k].amount)
           /\ body.amount = Num(IntCast(IF IsNone(Get(tx, "total_amount"))
                                        THEN Get(tx, "amount")
                                        ELSE Get(tx, "total_amount")))
           /\ \A f \in DOMAIN body : ~IsNone(body[f])

\* a record with one category line, a memo of its own and no total_amount and
\* a record with two lines were both sent
C24_Witness ==
    /\ pc = "returned"
    /\ \E c \in Creates :
          /\ Len(CategoriesOf(RecordOf(c))) = 1
          /\ IsNone(Get(RecordOf(c), "total_amount"))
          /\ StrOrEmpty(Get(RecordOf(c), "memo")) # <<>>
          /\ BodyOf(c).memo.s # StrOrEmpty(Get(RecordOf(c), "memo"))
    /\ \E c \in Creates : Len(CategoriesOf(RecordOf(c))) = 2

RECURSIVE SumSubtransactions(_)
SumSubtransactions(subs) ==
    IF subs = <<>> THEN 0
    ELSE Head(subs).amount + SumSubtransactions(Tail(subs))

\* C29: in every create body with subtransactions, their amounts add up to the
\* amount of the body
C29_SubtransactionsAddUp ==
    \A c \in Creates :
        "subtransactions" \in DOMAIN BodyOf(c) =>
            SumSubtransactions(BodyOf(c).subtransactions.l) = BodyOf(c).amount.n

(***************************************************************************)
(* Name resolution: YNABClient.get_id_by_name on a pre-fetched list        *)
(***************************************************************************)

\* characters in code-point order, for the comparison of str values
CodePoints ==
    <<" ", ".">> \o Digits \o UpperChars \o LowerChars

Ord(c) == CHOOSE k \in 1..Len(CodePoints) : CodePoints[k] = c

\* a < b on str
RECURSIVE StrLess(_, _)
StrLess(a, b) ==
    CASE b = <<>> -> FALSE
      [] a = <<>> -> TRUE
      [] Ord(Head(a)) # Ord(Head(b)) -> Ord(Head(a)) < Ord(Head(b))
      [] OTHER -> StrLess(Tail(a), Tail(b))

\* the matching blocks a[i..i+k-1] = b[j..j+k-1] inside a[alo..ahi], b[blo..bhi]
Blocks(a, alo, ahi, b, blo, bhi) ==
    { t \in (alo..ahi) \X (blo..bhi) \X (1..(ahi - alo + 1)) :
        /\ t[1] + t[3] - 1 <= ahi
        /\ t[2] + t[3] - 1 <= bhi
        /\ SubSeq(a, t[1], t[1] + t[3] - 1) = SubSeq(b, t[2], t[2] + t[3] - 1) }

\* the longest block of a non-empty set, the earliest in a, then the earliest
\* in b
Longest(blocks) ==
    CHOOSE t \in blocks :
        \A u \in blocks :
            \/ t[3] > u[3]
            \/ t[3] = u[3] /\ t[1] < u[1]
            \/ t[3] = u[3] /\ t[1] = u[1] /\ t[2] <= u[2]

\* SequenceMatcher.find_longest_match
LongestMatch(a, alo, ahi, b, blo, bhi) == Longest(Blocks(a, alo, ahi, b, blo, bhi))

RECURSIVE MatchCount(_, _, _, _, _, _)

\* the block t and the matches to its left and to its right
MatchAround(t, a, alo, ahi, b, blo, bhi) ==
    t[3] + MatchCount(a, alo, t[1] - 1, b, blo, t[2] - 1)
         + MatchCount(a, t[1] + t[3], ahi, b, t[2] + t[3], bhi)

MatchIn(blocks, a, alo, ahi, b, blo, bhi) ==
    IF blocks = {} THEN 0
    ELSE MatchAround(Longest(blocks), a, alo, ahi, b, blo, bhi)

\* SequenceMatcher.get_matching_blocks: the number of matched characters
MatchCount(a, alo, ahi, b, blo, bhi) ==
    IF alo > ahi \/ blo > bhi THEN 0
    ELSE MatchIn(Blocks(a, alo, ahi, b, blo, bhi), a, alo, ahi, b, blo, bhi)

\* SequenceMatcher(None, a, b).ratio() as the fraction <<2 * matches, length>>
Ratio(a, b) ==
    IF Len(a) + Len(b) = 0 THEN <<1, 1>>
    ELSE <<2 * MatchCount(a, 1, Len(a), b, 1, Len(b)), Len(a) + Len(b)>>

\* ratio >= cutoff with the cutoff 0.6 of get_close_matches(..., cutoff=0.6)
AtLeastCutoff(r) == 10 * r[1] >= 6 * r[2]

\* (score, x) < (score', x') on the tuples heapq.nlargest orders
ScoredLess(r, x, q, y) ==
    \/ r[1] * q[2] < q[1] * r[2]
    \/ r[1] * q[2] = q[1] * r[2] /\ StrLess(x, y)

\* the best of the names whose ratio reaches the cutoff
BestOf(ratio) ==
    LET good == { x \in DOMAIN ratio : AtLeastCutoff(ratio[x]) }
    IN { x \in good :
           \A y \in good \ {x} : ScoredLess(ratio[y], y, ratio[x], x) }

\* get_close_matches(word, possibilities, n=1, cutoff=0.6): the empty set, or
\* the one best name
CloseMatches(word, possibilities) ==
    BestOf([x \in possibilities |-> Ratio(x, word)])

NotFound == [ok |-> FALSE]
Found(id) == [ok |-> TRUE, id |-> id]

\* the id of the closest name, were the fallback consulted first
Resolve_ClosestFirst(objects, hits, best) ==
    IF best # {}
    THEN Found(objects[CHOOSE k \in 1..Len(objects) :
                  /\ objects[k].name \in best
                  /\ \A j \in 1..(k - 1) : objects[j].name \notin best].id)
    ELSE IF hits # {}
    THEN Found(objects[CHOOSE k \in hits : \A j \in hits : k <= j].id)
    ELSE NotFound

\* the id of the first substring match, else of the first object that carries
\* the closest name, else the ValueError
Resolve(objects, hits, best) ==
    IF hits # {}
    THEN Found(objects[CHOOSE k \in hits : \A j \in hits : k <= j].id)
    ELSE IF best # {}
    THEN Found(objects[CHOOSE k \in 1..Len(objects) :
                  /\ objects[k].name \in best
                  /\ \A j \in 1..(k - 1) : objects[j].name \notin best].id)
    ELSE NotFound

\* get_id_by_name(path=None, name=name, objects=objects): NotFound stands for
\* the ValueError
GetIdByName(objects, name) ==
    IF objects = <<>> THEN NotFound
    ELSE Resolve(objects,
                 { k \in 1..Len(objects) : In(Lower(name), Lower(objects[k].name)) },
                 CloseMatches(Lower(name),
                              { objects[k].name : k \in 1..Len(objects) }))

(***************************************************************************)
(* Split Engine: split_transactions_between_users                          *)
(***************************************************************************)
\* _contains_substring
ContainsSubstring(haystack, needle) ==
    LET h == Lower(Strip(haystack))
        n == Lower(Strip(needle))
    IN h # <<>> /\ n # <<>> /\ In(n, h)

\* _get_user_row raises: KeyError without the column, ValueError without a row
GetUserRowRaises(df, user_num) ==
    IF "User Number" \notin df.cols THEN TRUE
    ELSE RowsOfUser(CoerceUserNumber(df), user_num) = <<>>

\* _get_user_row
GetUserRow(df, user_num) == RowsOfUser(CoerceUserNumber(df), user_num)[1]

\* the digits of s as a number
DigitsValue(s) == IF s = <<>> THEN 0 ELSE ParseNat(s, 0)

\* float(s) in hundredths for a plain decimal of at most two places;
\* -1 stands for the ValueError
ParseFloat(s) ==
    LET dots == { k \in 1..Len(s) : s[k] = "." }
        dot == IF dots = {} THEN Len(s) + 1 ELSE CHOOSE k \in dots : TRUE
        whole == SubSeq(s, 1, dot - 1)
        frac == SubSeq(s, dot + 1, Len(s))
    IN IF /\ Cardinality(dots) <= 1
          /\ Len(whole) + Len(frac) > 0
          /\ Len(frac) <= 2
          /\ \A k \in 1..Len(s) : k \in dots \/ IsDigit(s[k])
       THEN 100 * DigitsValue(whole)
            + (IF Len(frac) = 1 THEN 10 ELSE 1) * DigitsValue(frac)
       ELSE -1

\* shared_pct in hundredths
SharedPct(target_row) ==
    LET raw == RowGet(target_row, "Share Percentage") IN
    IF IsNone(raw) \/ raw = Str(<<>>) THEN 0
    ELSE IF ParseFloat(Strip(StrOf(raw))) < 0 THEN 0
    ELSE ParseFloat(Strip(StrOf(raw)))

\* _default_target_category
DefaultTargetCategory(cat_df, target_col) ==
    IF "Alias" \notin cat_df.cols \/ target_col \notin cat_df.cols THEN NoneV
    ELSE LET default_rows ==
                 SelectSeq(cat_df.rows,
                           LAMBDA r : r["Alias"].t = "str"
                                      /\ Lower(Strip(r["Alias"].s)) = Lower(sDefault))
         IN IF default_rows = <<>> THEN NoneV
            ELSE Str(Strip(StrOrEmpty(RowGet(default_rows[1], target_col))))

\* the first matching row's own value is returned even when it is blank
MapTargetCategory_NoBlankFallback(cat_df, source_col, target_col, source_category_name) ==
    IF FrameEmpty(cat_df) \/ source_col \notin cat_df.cols
       \/ target_col \notin cat_df.cols
    THEN NoneV
    ELSE LET source_lower == Lower(Strip(source_category_name))
             match == SelectSeq(cat_df.rows,
                         LAMBDA r : ContainsSubstring(source_lower,
                                       Lower(Strip(StrOrEmpty(r[source_col])))))
         IN IF match # <<>>
            THEN Str(Strip(StrOrEmpty(RowGet(match[1], target_col))))
            ELSE DefaultTargetCategory(cat_df, target_col)

\* _map_target_category
MapTargetCategory(cat_df, source_col, target_col, source_category_name) ==
    IF FrameEmpty(cat_df) \/ source_col \notin cat_df.cols
       \/ target_col \notin cat_df.cols
    THEN NoneV
    ELSE LET source_lower == Lower(Strip(source_category_name))
             match == SelectSeq(cat_df.rows,
                         LAMBDA r : ContainsSubstring(source_lower,
                                       Lower(Strip(StrOrEmpty(r[source_col])))))
             mapped == IF match = <<>> THEN <<>>
                       ELSE Strip(StrOrEmpty(RowGet(match[1], target_col)))
         IN IF mapped # <<>> THEN Str(mapped)
            ELSE DefaultTargetCategory(cat_df, target_col)

\* (cat.get("amount") or 0) * amount_multiplier, the multiplier in hundredths
ScaledAmount(amount, multiplier) ==
    Float((IF amount.t = "num" THEN amount.n ELSE 0) * multiplier)

\* the name the category is looked up by: None when it is dropped
TargetName(cat, map_target, cat_df, source_col, target_col) ==
    IF Strip(StrOrEmpty(Get(cat, "category_name"))) = <<>> THEN NoneV
    ELSE IF map_target
    THEN MapTargetCategory(cat_df, source_col, target_col,
                           Strip(StrOrEmpty(Get(cat, "category_name"))))
    ELSE Str(Strip(StrOrEmpty(Get(cat, "category_name"))))

\* the payload built once the name is resolved
BuiltFrom(cat, target_name, cat_id, multiplier) ==
    IF cat_id.ok
    THEN [category_name |-> target_name,
          category_id |-> cat_id.id,
          amount |-> ScaledAmount(Get(cat, "amount"), multiplier),
          memo |-> Str(StrOrEmpty(Get(cat, "memo"))),
          deleted |-> Bool(Get(cat, "deleted") = Bool(TRUE))]
    ELSE NoneV

\* _category_lookup under the guards of the loop
LookupNamed(cat, target_name, budget_categories, multiplier) ==
    BuiltFrom(cat, target_name,
              IF Truthy(target_name)
              THEN GetIdByName(budget_categories, target_name.s)
              ELSE NotFound,
              multiplier)

\* one pass of the loop of _build_categories: the payload, or None when the
\* category is dropped
BuiltCategoryOf(cat, budget_categories, map_target, multiplier, cat_df, source_col, target_col) ==
    LookupNamed(cat, TargetName(cat, map_target, cat_df, source_col, target_col),
                budget_categories, multiplier)

\* list.append where a pass ending early ends the loop as well
AppendUnlessSkipped_StopsAtSkip(item, rest) ==
    IF IsNone(item) THEN <<>> ELSE <<item>> \o rest

\* list.append unless the pass ended with continue
AppendUnlessSkipped(item, rest) ==
    IF IsNone(item) THEN rest ELSE <<item>> \o rest

\* _build_categories
RECURSIVE BuildCategories(_, _, _, _, _, _, _)
BuildCategories(categories, budget_categories, map_target, multiplier, cat_df, source_col, target_col) ==
    IF categories = <<>> THEN <<>>
    ELSE AppendUnlessSkipped(
            BuiltCategoryOf(Head(categories), budget_categories,
                            map_target, multiplier, cat_df,
                            source_col, target_col),
            BuildCategories(Tail(categories), budget_categories,
                            map_target, multiplier, cat_df,
                            source_col, target_col))

RECURSIVE SumHundredths(_)
SumHundredths(built) ==
    IF built = <<>> THEN 0 ELSE Head(built).amount.m + SumHundredths(Tail(built))

\* sum(cat.get("amount") or 0 for cat in built): the int 0 when nothing but
\* zeros is added
TotalOf(built) ==
    IF \A k \in 1..Len(built) : built[k].amount.m = 0 THEN Num(0)
    ELSE Float(SumHundredths(built))

\* {**tx, key: value, ...}: a new dict
Spread(tx, overrides) ==
    [k \in (DOMAIN tx) \cup (DOMAIN overrides) |->
        IF k \in DOMAIN overrides THEN overrides[k] ELSE tx[k]]

\* the test that skips a transaction whatever the Shared Flag, empty or not
AlreadySplit_EmptyFlagCounts(tx, shared_flag) ==
    Lower(Strip(StrOrEmpty(Get(tx, "flag_color")))) = shared_flag

\* the test that skips a transaction as already split
AlreadySplit(tx, shared_flag) ==
    /\ shared_flag # <<>>
    /\ Lower(Strip(StrOrEmpty(Get(tx, "flag_color")))) = shared_flag

\* a synthesized record that keeps the flag of the original
Fresh_KeepsFlag == ("id" :> NoneV) @@ ("obj" :> 0)

\* what marks a synthesized record: no id, no flag, a dict of its own
Fresh == ("id" :> NoneV) @@ ("flag_color" :> NoneV) @@ ("obj" :> 0)

\* the group appended once accounts and categories are resolved, or None when
\* the transaction is skipped
GroupFrom(tx, s_user, t_user, shared_flag, skip_source_tx, source_shared_account, target_shared_account, source_account, target_account, source_built, target_built) ==
    LET tag(user) == ("budget_id" :> user.budget_id)
                     @@ ("user_num" :> Num(user.user_num))
    IN IF AlreadySplit(tx, shared_flag) THEN NoneV
       ELSE IF ~source_account.ok \/ ~target_account.ok THEN NoneV
       ELSE [original |-> Spread(tx, tag(s_user) @@ ("obj" :> 0)),
             source |->
                IF skip_source_tx THEN NoneV
                ELSE Spread(tx, tag(s_user) @@ Fresh
                                @@ ("total_amount" :> TotalOf(source_built))
                                @@ ("account_name" :> Str(source_shared_account))
                                @@ ("account_id" :> source_account.id)
                                @@ ("categories" :> source_built)),
             target |->
                Spread(tx, tag(t_user) @@ Fresh
                           @@ ("total_amount" :> TotalOf(target_built))
                           @@ ("account_name" :> Str(target_shared_account))
                           @@ ("account_id" :> target_account.id)
                           @@ ("categories" :> target_built))]

\* the pass of the loop for one transaction: the group, or None when the
\* transaction is skipped
GroupOf(tx, s_user, t_user, cat_df, source_row, target_row, service) ==
    LET shared_pct == SharedPct(target_row)
        source_shared_account == Strip(StrOrEmpty(RowGet(source_row, "Shared Account")))
        target_shared_account == Strip(StrOrEmpty(RowGet(target_row, "Shared Account")))
        source_col == UserCol(s_user.user_num)
        target_col == UserCol(t_user.user_num)
        src == service[s_user.budget_id.s]
        tgt == service[t_user.budget_id.s]
        skip_source_tx ==
            ContainsSubstring(Lower(Strip(StrOrEmpty(Get(tx, "account_name")))),
                              Lower(Strip(source_shared_account)))
    IN GroupFrom(tx, s_user, t_user,
                 Lower(Strip(StrOrEmpty(RowGet(source_row, "Shared Flag")))),
                 skip_source_tx, source_shared_account, target_shared_account,
                 IF skip_source_tx THEN Found(NoneV)
                 ELSE GetIdByName(src.accounts, source_shared_account),
                 GetIdByName(tgt.accounts, target_shared_account),
                 IF skip_source_tx THEN <<>>
                 ELSE BuildCategories(CategoriesOf(tx), src.categories, FALSE,
                                      -shared_pct, cat_df, source_col, target_col),
                 BuildCategories(CategoriesOf(tx), tgt.categories, TRUE,
                                 IF skip_source_tx THEN -100 ELSE shared_pct,
                                 cat_df, source_col, target_col))

\* the loop over transactions
RECURSIVE SplitLoop(_, _, _, _, _, _, _)
SplitLoop(txs, s_user, t_user, cat_df, source_row, target_row, service) ==
    IF txs = <<>> THEN <<>>
    ELSE AppendUnlessSkipped(
            GroupOf(Head(txs), s_user, t_user, cat_df,
                    source_row, target_row, service),
            SplitLoop(Tail(txs), s_user, t_user, cat_df,
                      source_row, target_row, service))

\* whether the call raises before any request: a settings row is missing
SplitRaises(df, s_user, t_user) ==
    IF GetUserRowRaises(df, s_user.user_num) THEN TRUE
    ELSE GetUserRowRaises(df, t_user.user_num)

\* grouped_results of a call whose four fetches succeed
SplitResult(txs, s_user, t_user, cat_df, df, service) ==
    SplitLoop(txs, s_user, t_user, cat_df,
              GetUserRow(df, s_user.user_num),
              GetUserRow(df, t_user.user_num), service)

(***************************************************************************)
(* The budgeting service the calls are tried against                       *)
(***************************************************************************)
sPots == <<"P","o","t","s">>
sGroceriesFull == <<"G","r","o","c","e","r","i","e","s">>
sBudgetA == <<"i","A">>
sBudgetB == <<"i","B">>

Object(id, name) == [id |-> Str(id), name |-> name]

\* GET budgets
BudgetList == << Object(sBudgetA, <<"A">>), Object(sBudgetB, <<"B">>) >>

\* GET budgets/{id}/accounts
AccountsA == << Object(<<"a","1">>, sChecking), Object(<<"a","2">>, sSharedPot) >>
AccountsB == << Object(<<"b","1">>, sPots) >>

\* GET budgets/{id}/categories, the groups flattened
CategoriesA ==
    << Object(<<"c","1">>, sRent), Object(<<"c","2">>, sCoffee),
       Object(<<"c","3">>, sGym) >>
CategoriesB ==
    << Object(<<"k","1">>, sGroceriesFull), Object(<<"k","2">>, sMisc),
       Object(<<"k","3">>, sGym) >>

Service(feedA, feedB, accountsB) ==
    (sBudgetA :> [accounts |-> AccountsA, categories |-> CategoriesA,
                  transactions |-> feedA])
    @@ (sBudgetB :> [accounts |-> accountsB, categories |-> CategoriesB,
                     transactions |-> feedB])

User(n, budget) == [user_num |-> n, budget_id |-> Str(budget)]

(***************************************************************************)
(* Calls of split_transactions_between_users                               *)
(***************************************************************************)
\* the frame _get_user_row coerces: the one users_df names after
\* users_df = users_df.copy()
WorkingFrame_Caller == "caller"
WorkingFrame == "copy"

\* the frames once the copy is taken and _get_user_row has run
SplitFramesAfter(f) ==
    LET copied == [f EXCEPT !.copy = f.caller]
    IN [copied EXCEPT ![WorkingFrame] =
           IF "User Number" \in @.cols THEN CoerceUserNumber(@) ELSE @]

\* the four fetches, were all of them made against the source budget
SplitGets_SourceOnly(s_user, t_user) ==
    << [method |-> "get", rec |-> 0, path |-> "accounts", budget_id |-> s_user.budget_id],
       [method |-> "get", rec |-> 0, path |-> "accounts", budget_id |-> s_user.budget_id],
       [method |-> "get", rec |-> 0, path |-> "categories", budget_id |-> s_user.budget_id],
       [method |-> "get", rec |-> 0, path |-> "categories", budget_id |-> s_user.budget_id] >>

\* the four fetches, in order
SplitGets(s_user, t_user) ==
    << [method |-> "get", rec |-> 0, path |-> "accounts", budget_id |-> s_user.budget_id],
       [method |-> "get", rec |-> 0, path |-> "accounts", budget_id |-> t_user.budget_id],
       [method |-> "get", rec |-> 0, path |-> "categories", budget_id |-> s_user.budget_id],
       [method |-> "get", rec |-> 0, path |-> "categories", budget_id |-> t_user.budget_id] >>

\* the requests received when the first n fetches are made and the last of
\* them has the given outcome
GetsUpTo(s_user, t_user, n, last) ==
    [k \in 1..n |->
        [method |-> SplitGets(s_user, t_user)[k].method,
         rec |-> 0,
         path |-> SplitGets(s_user, t_user)[k].path,
         budget_id |-> SplitGets(s_user, t_user)[k].budget_id,
         outcome |-> IF k = n THEN last ELSE "ok"]]

SplitTxs ==
    { Tx(sT1, <<>>, sChecking, << Category(sRent, Num(300)) >>),
      Tx(sT1, <<>>, sSharedPot, << Category(sHomeRent, Num(300)),
                                     Category(sGym, Num(50)) >>),
      Tx(sT2, sRed, sChecking, << Category(sCoffee, Num(100)) >>),
      Tx(<<>>, <<>>, sChecking, << Category(sCoffee, Num(100)),
                                   Category(sHomeRent, Num(201)) >>),
      Tx(sT2, <<>>, sChecking, << Category(sMisc, Num(40)),
                                  Category(sTravel, Num(60)) >>) }

SplitTxLists == UNION { [1..n -> SplitTxs] : n \in 0..MaxTx }

SplitPairs ==
    { << User(1, sBudgetA), User(2, sBudgetB) >>,
      << User(2, sBudgetB), User(1, sBudgetA) >>,
      << User(1, sBudgetA), User(3, sBudgetB) >> }

InitSplit ==
    /\ \E df \in {UsersSheet, UsersNumeric, UsersNoSharedFlag,
                   DropCol(UsersSheet, "User Number")} :
          frames = [caller |-> df, copy |-> NoFrame]
    /\ category_mappings_df \in RuleFrames
    /\ transactions \in SplitTxLists
    /\ \E pair \in SplitPairs : source_user = pair[1] /\ target_user = pair[2]
    /\ budgets \in { Service(<<>>, <<>>, AccountsB), Service(<<>>, <<>>, <<>>) }
    /\ user_number = 0
    /\ pc = "ready"
    /\ filtered = <<>>
    /\ first_filtered = <<>>
    /\ frames0 = frames
    /\ ncalls = 0
    /\ idx = 0
    /\ results = <<>>
    /\ calls = <<>>
    /\ grouped_results = <<>>
    /\ runs = <<>>
    /\ provider = NoProvider
    /\ fetch = NoFetch
    /\ lookup = NoLookup

SplitFrameVars ==
    <<FetchVars, ConfigVars, FilterVars, LoopVars, source_user, target_user, transactions,
      ncalls, runs>>

\* a settings row is missing: the call ends with the exception before any fetch
SplitRaiseNoUser ==
    /\ pc = "ready"
    /\ SplitRaises(SplitFramesAfter(frames)[WorkingFrame], source_user, target_user)
    /\ frames' = SplitFramesAfter(frames)
    /\ pc' = "raised"
    /\ UNCHANGED <<calls, grouped_results>>
    /\ UNCHANGED SplitFrameVars

\* one of the four fetches fails: the call ends with the exception
SplitRaiseGet ==
    /\ pc = "ready"
    /\ ~SplitRaises(SplitFramesAfter(frames)[WorkingFrame], source_user, target_user)
    /\ \E n \in 1..4 :
          calls' = calls \o GetsUpTo(source_user, target_user, n, "error")
    /\ frames' = SplitFramesAfter(frames)
    /\ pc' = "raised"
    /\ UNCHANGED grouped_results
    /\ UNCHANGED SplitFrameVars

\* the four fetches succeed: the loop runs and grouped_results is returned
SplitCall ==
    /\ pc = "ready"
    /\ ~SplitRaises(SplitFramesAfter(frames)[WorkingFrame], source_user, target_user)
    /\ calls' = calls \o GetsUpTo(source_user, target_user, 4, "ok")
    /\ frames' = SplitFramesAfter(frames)
    /\ grouped_results' =
          SplitResult(transactions, source_user, target_user,
                      category_mappings_df,
                      SplitFramesAfter(frames)[WorkingFrame], budgets)
    /\ pc' = "returned"
    /\ UNCHANGED SplitFrameVars

NextSplit ==
    \/ SplitRaiseNoUser
    \/ SplitRaiseGet
    \/ SplitCall

SpecSplit == InitSplit /\ [][NextSplit]_vars

(***************************************************************************)
(* The Split Engine's frame                                                *)
(***************************************************************************)
\* C10: no call of the Split Engine, returning or raising, changes the caller's
\* user-settings table or any input transaction record; the coercion of User
\* Number lands in the private copy
C10_SplitLeavesInputs ==
    [][transactions' = transactions /\ frames'.caller = frames.caller]_vars

\* a call returned groups after coercing the string user numbers of its copy
C10_Witness ==
    /\ pc = "returned"
    /\ grouped_results # <<>>
    /\ frames.copy # frames.caller
    /\ frames.caller = UsersSheet

(***************************************************************************)
(* The Split Engine's contract, stated on the caller's inputs              *)
(***************************************************************************)
SplitReturned == pc = "returned"

\* a user's Shared Account setting, trimmed
SharedAccountOf(user) ==
    Strip(StrOrEmpty(RowGet(SettingsRowOf(user.user_num), "Shared Account")))

\* a user's Shared Flag setting, trimmed and lower-cased
SharedFlagOf(user) ==
    Lower(Strip(StrOrEmpty(RowGet(SettingsRowOf(user.user_num), "Shared Flag"))))

\* tx lies in the source user's shared account
InSourceSharedAccount(tx) ==
    /\ SharedAccountOf(source_user) # <<>>
    /\ In(Lower(SharedAccountOf(source_user)), Lower(StrOrEmpty(tx.account_name)))

\* C16: in every group, source is null exactly when the original lies in the
\* source user's shared account; a source that is there has no id and no flag,
\* the source Shared Account as account_name and the source user's budget_id
\* and user_num; the target has no id and no flag and the target user's
\* budget_id and user_num
C16_SourceNullIffSharedAccount ==
    SplitReturned =>
        \A h \in 1..Len(grouped_results) :
            LET g == grouped_results[h] IN
            /\ IsNone(g.source) <=> InSourceSharedAccount(g.original)
            /\ ~IsNone(g.source) =>
                  /\ g.source.id = NoneV
                  /\ g.source.flag_color = NoneV
                  /\ g.source.account_name = Str(SharedAccountOf(source_user))
                  /\ g.source.budget_id = source_user.budget_id
                  /\ g.source.user_num = Num(source_user.user_num)
            /\ g.target.id = NoneV
            /\ g.target.flag_color = NoneV
            /\ g.target.budget_id = target_user.budget_id
            /\ g.target.user_num = Num(target_user.user_num)

\* one group was emitted without source, and one with a source for a flagged
\* original
C16_Witness ==
    /\ SplitReturned
    /\ \E h \in 1..Len(grouped_results) :
          /\ IsNone(grouped_results[h].source)
          /\ InSourceSharedAccount(grouped_results[h].original)
    /\ \E h \in 1..Len(grouped_results) :
          /\ ~IsNone(grouped_results[h].source)
          /\ StrOrEmpty(grouped_results[h].original.flag_color) # <<>>
          /\ StrOrEmpty(grouped_results[h].original.id) # <<>>

\* the accounts a group for tx needs are found in the two budgets
AccountsResolveFor(tx) ==
    /\ \/ InSourceSharedAccount(tx)
       \/ GetIdByName(budgets[source_user.budget_id.s].accounts,
                      SharedAccountOf(source_user)).ok
    /\ GetIdByName(budgets[target_user.budget_id.s].accounts,
                   SharedAccountOf(target_user)).ok

\* lower-cased flag of tx equals the source user's Shared Flag, empty or not
FlagEqualsSharedFlag(tx) ==
    Lower(Strip(StrOrEmpty(tx.flag_color))) = SharedFlagOf(source_user)

\* the originals of the groups are the given records, in order
OriginalsAre(txs) ==
    /\ Len(grouped_results) = Len(txs)
    /\ \A h \in 1..Len(txs) :
          \A f \in DOMAIN txs[h] : grouped_results[h].original[f] = txs[h][f]

\* C17 as stated: of the transactions whose accounts resolve, exactly those
\* whose flag differs from the Shared Flag get a group, two empty flags
\* counting as equal
C17_SkippedIffFlagEqual ==
    SplitReturned =>
        OriginalsAre(SelectSeq(transactions,
                        LAMBDA tx : /\ AccountsResolveFor(tx)
                                    /\ ~FlagEqualsSharedFlag(tx)))

\* C17 amended: of the transactions whose accounts resolve, exactly those get
\* no group whose flag equals a Shared Flag that is not empty; with an empty
\* Shared Flag none is skipped for its flag
C17_SkippedIffNonEmptyFlagEqual ==
    SplitReturned =>
        OriginalsAre(SelectSeq(transactions,
                        LAMBDA tx : /\ AccountsResolveFor(tx)
                                    /\ ~(/\ SharedFlagOf(source_user) # <<>>
                                         /\ FlagEqualsSharedFlag(tx))))

\* of two transactions whose accounts resolve, the one carrying the Shared
\* Flag was skipped and the other got its group
C17_Witness ==
    /\ SplitReturned
    /\ SharedFlagOf(source_user) # <<>>
    /\ Len(transactions) = 2
    /\ Len(grouped_results) = 1
    /\ \A k \in 1..2 : AccountsResolveFor(transactions[k])
    /\ \E k \in 1..2 : FlagEqualsSharedFlag(transactions[k])

\* a Python number in hundredths
Hundredths(v) == IF v.t = "float" THEN v.m ELSE 100 * v.n

\* round(x) of a number given in hundredths: halves go to the even neighbour
RoundHundredths(x) ==
    LET q == x \div 100
        r == x % 100
    IN IF r < 50 THEN q
       ELSE IF r > 50 THEN q + 1
       ELSE IF q % 2 = 0 THEN q ELSE q + 1

\* C18: for a group with a source, the target total is round(A x p) for the
\* sum A of the original's categories and the target's Share Percentage p, and
\* each source category amounts to the original amount times -p
C18_TargetTotalRounded ==
    SplitReturned =>
        \A h \in 1..Len(grouped_results) :
            LET g == grouped_results[h]
                p == SharedPct(SettingsRowOf(target_user.user_num))
            IN ~IsNone(g.source) =>
                  /\ Hundredths(g.target.total_amount)
                       = 100 * RoundHundredths(SumAmounts(g.original.categories) * p)
                  /\ \A k \in 1..Len(g.source.categories) :
                        \E c \in 1..Len(g.original.categories) :
                           /\ Str(Strip(g.original.categories[c].category_name.s))
                                = g.source.categories[k].category_name
                           /\ Hundredths(g.source.categories[k].amount)
                                = -p * g.original.categories[c].amount.n

\* C19: for an original in the source user's shared account, the group has no
\* source and its target total is the negated total of the original
C19_TargetMirrorsOriginal ==
    SplitReturned =>
        \A h \in 1..Len(grouped_results) :
            LET g == grouped_results[h] IN
            InSourceSharedAccount(g.original) =>
                /\ IsNone(g.source)
                /\ Hundredths(g.target.total_amount)
                     = -100 * g.original.total_amount.n

\* the rule rows whose source-user value, trimmed, lower-cased and not empty,
\* is part of the category name
MatchingRows(name) ==
    IF UserCol(source_user.user_num) \notin category_mappings_df.cols THEN <<>>
    ELSE SelectSeq(category_mappings_df.rows,
            LAMBDA r :
                LET v == Lower(Strip(StrOrEmpty(r[UserCol(source_user.user_num)])))
                IN v # <<>> /\ In(v, Lower(Strip(name))))

\* the rule rows whose Alias is "default"
DefaultRows ==
    IF "Alias" \notin category_mappings_df.cols THEN <<>>
    ELSE SelectSeq(category_mappings_df.rows,
            LAMBDA r : Lower(Strip(StrOrEmpty(r["Alias"]))) = Lower(sDefault))

\* a row's value for the target user, trimmed ("" when there is none)
TargetValue(r) == Strip(StrOrEmpty(RowGet(r, UserCol(target_user.user_num))))

\* the target name of C20 as stated ("" when the category is dropped)
MappedAsStated(name) ==
    IF MatchingRows(name) # <<>> THEN TargetValue(MatchingRows(name)[1])
    ELSE IF DefaultRows # <<>> THEN TargetValue(DefaultRows[1])
    ELSE <<>>

\* the target name of C20 amended ("" when the category is dropped)
MappedOrDefault(name) ==
    IF \/ FrameEmpty(category_mappings_df)
       \/ UserCol(source_user.user_num) \notin category_mappings_df.cols
       \/ UserCol(target_user.user_num) \notin category_mappings_df.cols
    THEN <<>>
    ELSE IF MatchingRows(name) # <<>> /\ TargetValue(MatchingRows(name)[1]) # <<>>
    THEN TargetValue(MatchingRows(name)[1])
    ELSE IF DefaultRows # <<>> THEN TargetValue(DefaultRows[1])
    ELSE <<>>

\* the names of the target categories of group h
TargetNames(h) ==
    [k \in 1..Len(grouped_results[h].target.categories) |->
        grouped_results[h].target.categories[k].category_name.s]

\* the names a mapping gives the named categories of group h, those dropped
\* and those the target budget does not hold left out
NamesKept(h, mapped) ==
    SelectSeq(mapped,
        LAMBDA e : IF e = <<>> THEN FALSE
                   ELSE GetIdByName(budgets[target_user.budget_id.s].categories, e).ok)

\* the named categories of the original of group h
NamedCategories(h) ==
    SelectSeq(grouped_results[h].original.categories,
              LAMBDA c : Strip(StrOrEmpty(c.category_name)) # <<>>)

\* C20 as stated: a category is mapped to the target value of the first rule
\* row matching it, to the default row's value when no row matches, and is
\* dropped only when there is neither
C20_MapFirstMatchElseDefault ==
    SplitReturned =>
        \A h \in 1..Len(grouped_results) :
            TargetNames(h)
              = NamesKept(h, [k \in 1..Len(NamedCategories(h)) |->
                                 MappedAsStated(NamedCategories(h)[k].category_name.s)])

\* C20 amended: a category is mapped to the target value of the first rule row
\* matching it when that value is not blank, and otherwise (no row matches, or
\* the value is blank) to the default row's value; it is dropped when the rule
\* table is empty or lacks one of the two user columns, when there is no
\* default row to fall back on, or when the value found is blank
C20_MapFirstMatchElseDefaultWhenBlank ==
    SplitReturned =>
        \A h \in 1..Len(grouped_results) :
            TargetNames(h)
              = NamesKept(h, [k \in 1..Len(NamedCategories(h)) |->
                                 MappedOrDefault(NamedCategories(h)[k].category_name.s)])

\* a category matching a row with a blank target value and a category matching
\* no row were both given the default name, and a category was given the name
\* of its row
C20_Witness ==
    /\ SplitReturned
    /\ \E h \in 1..Len(grouped_results) :
          /\ Len(NamedCategories(h)) = 2
          /\ MatchingRows(NamedCategories(h)[1].category_name.s) # <<>>
          /\ TargetValue(MatchingRows(NamedCategories(h)[1].category_name.s)[1]) = <<>>
          /\ MatchingRows(NamedCategories(h)[2].category_name.s) = <<>>
          /\ TargetNames(h) = << sMisc, sMisc >>
    /\ \E h \in 1..Len(grouped_results) :
          /\ grouped_results[h].original.categories[1].category_name = Str(sRent)
          /\ TargetNames(h) = << sGroceries >>

\* the category names of one side of a group
SideNames(side) ==
    [k \in 1..Len(side.categories) |-> side.categories[k].category_name.s]

\* the names of the named categories of the original of group h that the
\* source budget holds
SourceNamesKept(h) ==
    SelectSeq([k \in 1..Len(NamedCategories(h)) |->
                  Strip(NamedCategories(h)[k].category_name.s)],
        LAMBDA e : GetIdByName(budgets[source_user.budget_id.s].categories, e).ok)

\* the ids of the categories of a budget
CategoryIdsOf(budget_id) ==
    { budgets[budget_id.s].categories[k].id :
        k \in 1..Len(budgets[budget_id.s].categories) }

\* C21: a call ends with an exception only for a missing settings row or a
\* failed fetch; a transaction whose source or target account is not found
\* gets no group and every other transaction not yet split gets its group, in
\* the order of the input; a category whose name is not found in a budget is
\* left out of that side and the group is emitted all the same
C21_FailuresSkipOnlyTheirItem ==
    /\ pc = "raised" =>
          \/ SplitRaises(frames[WorkingFrame], source_user, target_user)
          \/ /\ calls # <<>>
             /\ calls[Len(calls)].outcome = "error"
    /\ SplitReturned =>
          /\ OriginalsAre(SelectSeq(transactions,
                LAMBDA tx : IF AlreadySplit(tx, SharedFlagOf(source_user))
                            THEN FALSE ELSE AccountsResolveFor(tx)))
          /\ \A h \in 1..Len(grouped_results) :
                LET g == grouped_results[h] IN
                /\ ~IsNone(g.source) => SideNames(g.source) = SourceNamesKept(h)
                /\ Len(g.target.categories) <= Len(NamedCategories(h))
                /\ \A k \in 1..Len(g.target.categories) :
                      g.target.categories[k].category_id
                        \in CategoryIdsOf(target_user.budget_id)

\* of two transactions not yet split the one whose source account is not found
\* was skipped and the other got its group, with a category left out of its
\* target
C21_Witness ==
    /\ SplitReturned
    /\ Len(transactions) = 2
    /\ Len(grouped_results) = 1
    /\ \A k \in 1..2 : ~AlreadySplit(transactions[k], SharedFlagOf(source_user))
    /\ \E k \in 1..2 : ~AccountsResolveFor(transactions[k])
    /\ Len(grouped_results[1].target.categories) < Len(NamedCategories(1))

\* C22: a call that returns has made exactly four requests, all GET and none
\* tied to a transaction: the account list and the category list of the
\* source budget and of the target budget; a call that ends for a missing
\* settings row has made none; no call makes more than four
C22_FourFetchesThenNone ==
    /\ Len(calls) <= 4
    /\ \A c \in 1..Len(calls) : calls[c].method = "get" /\ calls[c].rec = 0
    /\ SplitReturned =>
          /\ Len(calls) = 4
          /\ \A c \in 1..4 : calls[c].outcome = "ok"
          /\ \A path \in {"accounts", "categories"} :
                \A user \in {source_user, target_user} :
                   Cardinality({ c \in 1..4 :
                                   /\ calls[c].path = path
                                   /\ calls[c].budget_id = user.budget_id }) = 1
    /\ (pc = "raised" /\ SplitRaises(frames[WorkingFrame], source_user, target_user))
          => calls = <<>>

\* a call over two transactions returned two groups after its four requests
C22_Witness ==
    /\ SplitReturned
    /\ Len(calls) = 4
    /\ Len(transactions) = 2
    /\ Len(grouped_results) = 2

\* C28: in every group with a source, the totals of source and target cancel
C28_SourceTargetCancel ==
    SplitReturned =>
        \A h \in 1..Len(grouped_results) :
            LET g == grouped_results[h] IN
            ~IsNone(g.source) =>
                Hundredths(g.source.total_amount)
                  + Hundredths(g.target.total_amount) = 0

\* C30: no side of a group is given an account when the Shared Account of its
\* user is empty
C30_EmptySharedAccountUnresolved ==
    SplitReturned =>
        \A h \in 1..Len(grouped_results) :
            LET g == grouped_results[h] IN
            /\ SharedAccountOf(target_user) # <<>>
            /\ ~IsNone(g.source) => SharedAccountOf(source_user) # <<>>

(***************************************************************************)
(* A run: POST /transactions/split without a body                          *)
(*   _collect_shared_transactions -> preview_split_transactions ->         *)
(*   upsert_shared_transactions, on the tables loaded at startup           *)
(***************************************************************************)
MaxRuns == 2

\* the flag of a feed record: the one the last successful update gave it
FlagOnService(budget, tx) ==
    LET hits == { c \in 1..Len(calls) :
                    /\ calls[c].method = "patch"
                    /\ calls[c].outcome = "ok"
                    /\ calls[c].budget_id = Str(budget)
                    /\ calls[c].json.transactions[1].id = tx.id }
    IN IF hits = {} THEN tx.flag_color
       ELSE calls[CHOOSE c \in hits : \A d \in hits : d <= c]
               .json.transactions[1].flag_color

\* code points the pattern of strip_emoji matches, each written as one element
EmojiChars == {"U+2615", "U+FE0F", "U+200D", "U+1F355"}

\* runs of blanks become one blank
RECURSIVE Squeeze(_)
Squeeze(s) ==
    IF Len(s) < 2 THEN s
    ELSE IF s[1] = " " /\ s[2] = " " THEN Squeeze(Tail(s))
    ELSE <<s[1]>> \o Squeeze(Tail(s))

\* strip_emoji: " ".join(emoji_re.sub(" ", text).split())
StripEmoji(text) ==
    Squeeze(Strip([k \in 1..Len(text) |->
                      IF text[k] \in EmojiChars THEN " " ELSE text[k]]))

sSplit == <<"s","p","l","i","t">>

\* whether datetime.fromisoformat accepts the text of a date
IsIsoDate(d) ==
    /\ Len(d) = 10
    /\ \A k \in 1..10 : IF k \in {5, 8} THEN d[k] = "-" ELSE IsDigit(d[k])

\* bool(v)
PyBool(v) ==
    CASE v.t = "bool" -> v.b
      [] v.t = "str" -> v.s # <<>>
      [] v.t = "num" -> v.n # 0
      [] OTHER -> FALSE

\* one entry of categories
NormalizedCategory(name, amount, memo, deleted) ==
    [category_name |-> Str(name), amount |-> amount, memo |-> Str(StrOrEmpty(memo)),
     deleted |-> Bool(PyBool(deleted))]

\* the entries built from the sub-line items: the synthetic "Split" is left out
RECURSIVE SubCategories(_)
SubCategories(subs) ==
    IF subs = <<>> THEN <<>>
    ELSE IF Lower(StripEmoji(StrOrEmpty(Get(Head(subs), "category_name")))) = sSplit
    THEN SubCategories(Tail(subs))
    ELSE << NormalizedCategory(
               StripEmoji(StrOrEmpty(Get(Head(subs), "category_name"))),
               Get(Head(subs), "amount"), Get(Head(subs), "memo"),
               Get(Head(subs), "deleted")) >>
         \o SubCategories(Tail(subs))

\* tx.get("subtransactions") or []
RawSubtransactions(raw) ==
    IF "subtransactions" \in DOMAIN raw /\ ~IsNone(raw.subtransactions)
    THEN raw.subtransactions ELSE <<>>

\* whether datetime.fromisoformat(tx.get("date", "")) raises
NormalizeRaises(raw) ==
    IF "date" \notin DOMAIN raw THEN TRUE
    ELSE IF raw.date.t # "str" THEN TRUE
    ELSE ~IsIsoDate(raw.date.s)

\* _normalize_transaction; None stands for the exception of a date that does
\* not parse, which the method logs and raises again
Normalize(raw) ==
    IF NormalizeRaises(raw) THEN NoneV
    ELSE [obj |-> 0,
          id |-> IF "id" \in DOMAIN raw THEN raw.id ELSE Str(<<>>),
          date |-> DateV(raw.date.s),
          total_amount |-> Get(raw, "amount"),
          cleared |-> Get(raw, "cleared"),
          approved |-> Bool(PyBool(Get(raw, "approved"))),
          payee_name |-> Str(StrOrEmpty(Get(raw, "payee_name"))),
          account_name |-> Str(StripEmoji(StrOrEmpty(Get(raw, "account_name")))),
          deleted |-> Bool(PyBool(Get(raw, "deleted"))),
          flag_color |-> Str(StrOrEmpty(Get(raw, "flag_color"))),
          categories |->
             IF RawSubtransactions(raw) # <<>>
             THEN SubCategories(RawSubtransactions(raw))
             ELSE IF Lower(StripEmoji(StrOrEmpty(Get(raw, "category_name")))) = sSplit
             THEN <<>>
             ELSE << NormalizedCategory(
                        StripEmoji(StrOrEmpty(Get(raw, "category_name"))),
                        Get(raw, "amount"), Get(raw, "memo"),
                        Get(raw, "deleted")) >>]

\* the name the service holds for an id
NameOfId(objects, id) ==
    objects[CHOOSE k \in 1..Len(objects) : objects[k].id = id].name

\* the id the service gives the transaction created by request c
NewId(c) == <<"n", Digits[((c \div 10) % 10) + 1], Digits[(c % 10) + 1]>>

\* the record the service returns for the transaction created by request c
RawCreated(c) ==
    LET body == calls[c].json.transaction
        service == budgets[calls[c].budget_id.s]
    IN [id |-> Str(NewId(c)),
        date |-> body.date,
        amount |-> body.amount,
        payee_name |-> Get(body, "payee_name"),
        memo |-> Get(body, "memo"),
        account_name |-> Str(NameOfId(service.accounts, body.account_id)),
        flag_color |-> NoneV,
        category_name |->
            IF "category_id" \in DOMAIN body
            THEN Str(NameOfId(service.categories, body.category_id))
            ELSE IF "subtransactions" \in DOMAIN body THEN Str(<<"S","p","l","i","t">>)
            ELSE NoneV,
        subtransactions |->
            IF "subtransactions" \in DOMAIN body
            THEN [k \in 1..Len(body.subtransactions.l) |->
                    [amount |-> Num(body.subtransactions.l[k].amount),
                     memo |-> Str(body.subtransactions.l[k].memo),
                     category_name |->
                        Str(NameOfId(service.categories,
                                     body.subtransactions.l[k].category_id))]]
            ELSE <<>>]

\* the create requests the service accepted for the budget, in order
Created(budget) ==
    SelectSeq([c \in 1..Len(calls) |-> c],
              LAMBDA c : /\ calls[c].method = "post"
                         /\ calls[c].outcome = "ok"
                         /\ calls[c].budget_id = Str(budget))

\* the feed before the flags are read: the records the service started with,
\* then the normalized created ones
FeedRecords(budget) ==
    budgets[budget].transactions
    \o [k \in 1..Len(Created(budget)) |-> Normalize(RawCreated(Created(budget)[k]))]

\* get_transactions(budget): the normalized records of the budget's feed, each
\* a dict of its own
Feed(budget) ==
    [k \in 1..Len(FeedRecords(budget)) |->
        [FeedRecords(budget)[k] EXCEPT
            !.flag_color = FlagOnService(budget, FeedRecords(budget)[k]),
            !.obj = k]]

\* Transaction(...).model_dump(): a new dict
ModelDump(tx) == [tx EXCEPT !.obj = 0]

\* whether the row of the roster ends the collection with an HTTP error
RowRaises(row) ==
    IF IsNone(RowGet(row, "Budget Name")) THEN TRUE
    ELSE IF ~GetIdByName(BudgetList, StrOf(RowGet(row, "Budget Name"))).ok THEN TRUE
    ELSE IF IntRaises(row["User Number"]) THEN TRUE
    ELSE IntCast(row["User Number"]) < 1

CollectRaises(users_df) ==
    \E k \in 1..Len(users_df.rows) : RowRaises(users_df.rows[k])

\* one pass of the loop of _collect_shared_transactions
CollectedUser(row) ==
    LET budget_id == GetIdByName(BudgetList, StrOf(RowGet(row, "Budget Name"))).id
        user_num == IntCast(row["User Number"])
    IN [user |-> [budget_id |-> budget_id, user_num |-> user_num],
        shared_transactions |->
            FilterResult(Feed(budget_id.s), user_num, category_mappings_df,
                         frames0.caller)]

\* the requests of one pass: the budget list and the feed
CollectGets(row) ==
    << [method |-> "get", rec |-> 0, path |-> "budgets", budget_id |-> NoneV,
        outcome |-> "ok"],
       [method |-> "get", rec |-> 0, path |-> "transactions",
        budget_id |-> GetIdByName(BudgetList, StrOf(RowGet(row, "Budget Name"))).id,
        outcome |-> "ok"] >>

RECURSIVE Concat(_)
Concat(seqs) == IF seqs = <<>> THEN <<>> ELSE Head(seqs) \o Concat(Tail(seqs))

\* the ordered pairs (i, j), i # j, in the order of the two nested loops
PairsSeq(n) ==
    [k \in 1..(n * (n - 1)) |->
        LET i == ((k - 1) \div (n - 1)) + 1
            r == ((k - 1) % (n - 1)) + 1
        IN <<i, IF r < i THEN r ELSE r + 1>>]

\* the groups of preview_split_transactions, pair after pair
PreviewGroups(collected, users_df) ==
    Concat([k \in 1..Len(PairsSeq(Len(collected))) |->
              LET i == PairsSeq(Len(collected))[k][1]
                  j == PairsSeq(Len(collected))[k][2]
              IN SplitResult([t \in 1..Len(collected[i].shared_transactions) |->
                                 ModelDump(collected[i].shared_transactions[t])],
                             collected[i].user, collected[j].user,
                             category_mappings_df, users_df, budgets)])

\* the requests of preview_split_transactions: four fetches per pair
PreviewGets(collected) ==
    Concat([k \in 1..Len(PairsSeq(Len(collected))) |->
              GetsUpTo(collected[PairsSeq(Len(collected))[k][1]].user,
                       collected[PairsSeq(Len(collected))[k][2]].user, 4, "ok")])

\* upsert_payload: original, source when there is one, target of every group
RECURSIVE UpsertPayload(_)
UpsertPayload(groups) ==
    IF groups = <<>> THEN <<>>
    ELSE << Head(groups).original >>
         \o (IF IsNone(Head(groups).source) THEN <<>> ELSE << Head(groups).source >>)
         \o << Head(groups).target >>
         \o UpsertPayload(Tail(groups))

\* feeds of budget A the runs start from
RunFeeds ==
    { << >>,
      << Tx(sT1, <<>>, sChecking, << Category(sRent, Num(300)) >>) >>,
      << Tx(sT2, <<>>, sSharedPot, << Category(sHomeRent, Num(300)),
                                       Category(sGym, Num(50)) >>) >>,
      << Tx(sT1, sBlue, sChecking, << Category(sCoffee, Num(100)),
                                      Category(sGym, Num(50)) >>),
         Tx(sT2, sGreen, sChecking, << Category(sRent, Num(100)) >>) >> }

InitRun ==
    /\ \E df \in {UsersSheet, UsersCloseAccount, UsersBadNumber} :
          frames = [caller |-> df, copy |-> NoFrame]
    /\ category_mappings_df = RulesSheet
    /\ \E feedA \in RunFeeds :
       \E feedB \in { <<>>, << Tx(sT1, <<>>, sChecking,
                                  << Category(sGym, Num(80)) >>) >> } :
          budgets = Service(feedA, feedB, AccountsB)
    /\ transactions = <<>>
    /\ user_number = 0
    /\ pc = "idle"
    /\ filtered = <<>>
    /\ first_filtered = <<>>
    /\ frames0 = frames
    /\ ncalls = 0
    /\ idx = 0
    /\ results = <<>>
    /\ calls = <<>>
    /\ source_user = NoUser
    /\ target_user = NoUser
    /\ grouped_results = <<>>
    /\ runs = <<>>
    /\ provider = NoProvider
    /\ fetch = NoFetch
    /\ lookup = NoLookup

\* _collect_shared_transactions: every user's feed is fetched and filtered
RunCollect ==
    /\ pc = "idle"
    /\ ncalls < MaxRuns
    /\ ~CollectRaises(frames.caller)
    /\ filtered' = [k \in 1..Len(frames.caller.rows) |->
                       CollectedUser(frames.caller.rows[k])]
    /\ calls' = calls \o Concat([k \in 1..Len(frames.caller.rows) |->
                                    CollectGets(frames.caller.rows[k])])
    /\ ncalls' = ncalls + 1
    /\ pc' = "collected"
    /\ UNCHANGED <<frames, transactions, user_number, first_filtered, runs>>
    /\ UNCHANGED <<FetchVars, ConfigVars, LoopVars, SplitVars>>

\* a roster row without a budget or a user number: the request ends with 404
RunCollectRaise ==
    /\ pc = "idle"
    /\ ncalls < MaxRuns
    /\ CollectRaises(frames.caller)
    /\ ncalls' = ncalls + 1
    /\ pc' = "failed"
    /\ UNCHANGED <<frames, transactions, calls, runs>>
    /\ UNCHANGED <<FetchVars, ConfigVars, FilterVars, LoopVars, SplitVars>>

\* a fetch of the collection or of the preview fails: the request ends with
\* the error
RunFetchFail ==
    /\ \/ pc = "idle" /\ ncalls < MaxRuns /\ ~CollectRaises(frames.caller)
       \/ pc = "collected"
    /\ calls' = Append(calls, [method |-> "get", rec |-> 0, path |-> "any",
                               budget_id |-> NoneV, outcome |-> "error"])
    /\ pc' = "failed"
    /\ UNCHANGED <<frames, transactions, ncalls, runs>>
    /\ UNCHANGED <<FetchVars, ConfigVars, FilterVars, LoopVars, SplitVars>>

\* preview_split_transactions and the flattening of its groups into the
\* Reconciler's payload
RunSplit ==
    /\ pc = "collected"
    /\ frames' = SplitFramesAfter(frames)
    /\ calls' = calls \o PreviewGets(filtered)
    /\ grouped_results' =
          PreviewGroups(filtered, SplitFramesAfter(frames)[WorkingFrame])
    /\ transactions' = UpsertPayload(grouped_results')
    /\ idx' = 1
    /\ results' = <<>>
    /\ pc' = "loop"
    /\ UNCHANGED <<source_user, target_user, ncalls, runs>>
    /\ UNCHANGED <<FetchVars, ConfigVars, FilterVars>>

\* the results are returned to the caller of the endpoint
RunRespond ==
    /\ pc = "returned"
    /\ runs' = Append(runs, grouped_results)
    /\ grouped_results' = <<>>
    /\ pc' = "idle"
    /\ UNCHANGED <<frames, transactions, ncalls, calls, source_user, target_user>>
    /\ UNCHANGED <<FetchVars, ConfigVars, FilterVars, LoopVars>>

\* the Reconciler's other branches need a record without user_num, id or
\* account_id, or an amount that is not a number: the payload holds none
NextRun ==
    \/ RunCollect
    \/ RunCollectRaise
    \/ RunFetchFail
    \/ RunSplit
    \/ UpsertUpdate
    \/ UpsertCreate
    \/ UpsertReturn
    \/ RunRespond

SpecRun == InitRun /\ [][NextRun]_vars

(***************************************************************************)
(* Runs repeated                                                           *)
(***************************************************************************)
\* the groups of the runs completed so far
EarlierGroups ==
    UNION { { runs[r][g] : g \in 1..Len(runs[r]) } : r \in 1..Len(runs) }

\* C4: a transaction whose group went through the Reconciler in a completed
\* run gets no group for the same source user in a later run
C4_NoSecondGroup ==
    \A g \in EarlierGroups :
        \A h \in 1..Len(grouped_results) :
            ~ /\ grouped_results[h].original.id = g.original.id
              /\ grouped_results[h].original.user_num = g.original.user_num
              /\ grouped_results[h].original.budget_id = g.original.budget_id

\* the position in the Reconciler's payload of the target of group h
TargetPos(h) == Len(UpsertPayload(SubSeq(grouped_results, 1, h)))

\* the record at position r of the payload was created in this run
CreatedAt(r) ==
    \E j \in 1..Len(results) :
        /\ results[j].action = "create"
        /\ calls[results[j].response.call].rec = r

\* the original of group h carries on the service the Shared Flag of its user
MarkedSplit(h) ==
    LET original == grouped_results[h].original
        shared_flag == SharedFlagForUser(frames.caller, original.user_num.n)
    IN /\ shared_flag # <<>>
       /\ Lower(Strip(StrOrEmpty(FlagOnService(original.budget_id.s, original))))
            = shared_flag

CreatedIds(budget) ==
    { Str(NewId(Created(budget)[k])) : k \in 1..Len(Created(budget)) }

\* C27: no record the Reconciler created is among the shared transactions the
\* Filter returns for the user of its budget
C27_DerivedNeverShared ==
    \A u \in 1..Len(filtered) :
        \A t \in 1..Len(filtered[u].shared_transactions) :
            filtered[u].shared_transactions[t].id
              \notin CreatedIds(filtered[u].user.budget_id.s)

(***************************************************************************)
(* YNABClient.get_transactions: the paginated fetch of a budget's feed     *)
(***************************************************************************)
\* records of a full page (200 in ynab_client.py, scaled)
PageSize == 2
\* pages one fetch may ask for
MaxPages == 4

sSoon == <<"s","o","o","n">>
sCoffeeShopRaw == <<"C","o","f","f","e","e","U+2615","S","h","o","p">>
sCoffeeShop == <<"C","o","f","f","e","e"," ","S","h","o","p">>
sPureEmoji == <<"U+1F355","U+FE0F">>
sSplitCap == <<"S","p","l","i","t">>
sSplitEmoji == <<"S","P","L","I","T"," ","U+2615">>
sPotRaw == <<"P","o","t","U+200D"," ","A">>

\* a record as the service sends it
RawRecord(id, account_id, date, category_name, subs) ==
    [id |-> id, date |-> date, amount |-> Num(1000), cleared |-> Str(<<"c">>),
     approved |-> Bool(TRUE), payee_name |-> Str(<<"P">>), memo |-> NoneV,
     account_name |-> Str(sPotRaw), account_id |-> account_id,
     flag_color |-> NoneV, deleted |-> Bool(FALSE),
     category_name |-> category_name, subtransactions |-> subs]

\* a sub-line item as the service sends it
RawSub(category_name) ==
    [category_name |-> category_name, amount |-> Num(500), memo |-> NoneV,
     deleted |-> Bool(FALSE)]

WithoutKey(rec, key) == [f \in (DOMAIN rec) \ {key} |-> rec[f]]

RawKinds ==
    {"plain", "emoji", "pure_emoji", "no_category", "split_subs", "split_alone",
     "bad_date", "no_date"}

\* the raw records the fetch is tried on, by kind
RawOf(kind, id, account_id) ==
    CASE kind = "plain" ->
            WithoutKey(RawRecord(id, account_id, Str(sDate), Str(sRent), <<>>),
                       "subtransactions")
      [] kind = "emoji" ->
            RawRecord(id, account_id, Str(sDate), Str(sCoffeeShopRaw), <<>>)
      [] kind = "pure_emoji" ->
            RawRecord(id, account_id, Str(sDate), Str(sPureEmoji), <<>>)
      [] kind = "no_category" ->
            RawRecord(id, account_id, Str(sDate), NoneV, NoneV)
      [] kind = "split_subs" ->
            RawRecord(id, account_id, Str(sDate), Str(sSplitCap),
                      << RawSub(Str(sRent)), RawSub(Str(sSplitEmoji)),
                         RawSub(Str(sCoffeeShopRaw)) >>)
      [] kind = "split_alone" ->
            RawRecord(id, account_id, Str(sDate), Str(sSplitEmoji), <<>>)
      [] kind = "bad_date" ->
            RawRecord(id, account_id, Str(sSoon), Str(sRent), <<>>)
      [] OTHER ->
            WithoutKey(RawRecord(id, account_id, Str(sDate), Str(sRent), <<>>),
                       "date")

RecId(p, k) == Str(<<"r", Digits[p + 1], Digits[k + 1]>>)
AccountId(k) == Str(<<"a", Digits[k + 1]>>)

\* a page of PageSize records, the first of the given kind
FullPage(p, kind) ==
    [k \in 1..PageSize |->
        RawOf(IF k = 1 THEN kind ELSE "plain", RecId(p, k), AccountId(k))]

\* a page of one record
ShortPage(p, kind) == << RawOf(kind, RecId(p, 1), AccountId(1)) >>

\* a service that pages as asked: a full page, a short one, then nothing
Honest(kind1, kind2) ==
    [p \in 1..MaxPages |->
        IF p = 1 THEN FullPage(1, kind1)
        ELSE IF p = 2 THEN ShortPage(2, kind2) ELSE <<>>]

\* a service that ignores the page parameter
IgnoresPage(first_id) ==
    [p \in 1..MaxPages |-> [FullPage(1, "plain") EXCEPT ![1].id = first_id]]

\* a service that serves two full pages in turn
Cycles ==
    [p \in 1..MaxPages |->
        IF p % 2 = 1 THEN FullPage(1, "plain") ELSE FullPage(2, "plain")]

Providers ==
    { Honest(k1, k2) : k1 \in RawKinds, k2 \in RawKinds }
    \cup { IgnoresPage(RecId(1, 1)), IgnoresPage(NoneV), Cycles,
           [p \in 1..MaxPages |-> <<>>],
           [p \in 1..MaxPages |-> IF p = 1 THEN FullPage(1, "plain") ELSE <<>>] }

SinceDates == { DateV(sDate), Str(sDate), Str(sSoon) }

\* whether the conversion of since_date raises ValueError
SinceDateRaises(since_date) ==
    since_date.t # "date" /\ ~IsIsoDate(StrOf(since_date))

InitFetch ==
    /\ provider \in Providers
    /\ \E d \in SinceDates :
          fetch = [since_date |-> d, page |-> 0, last_first_id |-> NoneV,
                   transactions |-> <<>>, pos |-> 0, all_transactions |-> <<>>,
                   exc |-> "none"]
    /\ frames = [caller |-> EmptyFrame, copy |-> NoFrame]
    /\ category_mappings_df = EmptyFrame
    /\ transactions = <<>>
    /\ user_number = 0
    /\ pc = "ready"
    /\ filtered = <<>>
    /\ first_filtered = <<>>
    /\ frames0 = frames
    /\ ncalls = 0
    /\ idx = 0
    /\ results = <<>>
    /\ calls = <<>>
    /\ budgets = NoBudgets
    /\ source_user = NoUser
    /\ target_user = NoUser
    /\ grouped_results = <<>>
    /\ runs = <<>>
    /\ lookup = NoLookup

FetchFrameVars ==
    <<ConfigVars, FilterVars, LoopVars, SplitVars, frames, transactions, ncalls,
      runs, provider, lookup>>

\* the request of one page
PageRequest(page, outcome) ==
    [method |-> "get", rec |-> 0, path |-> "transactions",
     budget_id |-> Str(sBudgetA), page |-> page, outcome |-> outcome]

\* since_date converts: the loop starts at page 1
FetchBegin ==
    /\ pc = "ready"
    /\ ~SinceDateRaises(fetch.since_date)
    /\ fetch' = [fetch EXCEPT !.page = 1]
    /\ pc' = "request"
    /\ UNCHANGED calls
    /\ UNCHANGED FetchFrameVars

\* since_date does not convert: ValueError before any request
FetchRaiseSinceDate ==
    /\ pc = "ready"
    /\ SinceDateRaises(fetch.since_date)
    /\ fetch' = [fetch EXCEPT !.exc = "since_date"]
    /\ pc' = "raised"
    /\ UNCHANGED calls
    /\ UNCHANGED FetchFrameVars

\* whether the loop breaks on the page before normalizing it
BreaksOn(page_records, last_first_id) ==
    IF page_records = <<>> THEN TRUE
    ELSE /\ PyBool(last_first_id)
         /\ Get(page_records[1], "id") = last_first_id

\* self.get(...) answers: an empty page or a repeated first id ends the loop
FetchGet ==
    /\ pc = "request"
    /\ fetch.page <= MaxPages
    /\ calls' = Append(calls, PageRequest(fetch.page, "ok"))
    /\ IF BreaksOn(provider[fetch.page], fetch.last_first_id)
       THEN /\ pc' = "returned"
            /\ fetch' = [fetch EXCEPT !.transactions = provider[fetch.page]]
       ELSE /\ pc' = "normalize"
            /\ fetch' = [fetch EXCEPT
                            !.transactions = provider[fetch.page],
                            !.last_first_id = Get(provider[fetch.page][1], "id"),
                            !.pos = 1]
    /\ UNCHANGED FetchFrameVars

\* self.get(...) raises requests.RequestException: logged and raised again
FetchGetFail ==
    /\ pc = "request"
    /\ fetch.page <= MaxPages
    /\ calls' = Append(calls, PageRequest(fetch.page, "error"))
    /\ fetch' = [fetch EXCEPT !.exc = "request"]
    /\ pc' = "raised"
    /\ UNCHANGED FetchFrameVars

\* the position after the record at pos: the next record, the next page, or
\* the end when the page was short
AfterRecord(f) ==
    IF f.pos < Len(f.transactions) THEN "normalize"
    ELSE IF Len(f.transactions) < PageSize THEN "returned"
    ELSE "request"

\* one pass of `for tx in transactions`, and what follows the last pass
FetchNormalize ==
    /\ pc = "normalize"
    /\ ~NormalizeRaises(fetch.transactions[fetch.pos])
    /\ pc' = AfterRecord(fetch)
    /\ fetch' = [fetch EXCEPT
                    !.all_transactions =
                        Append(@, [Normalize(fetch.transactions[fetch.pos])
                                      EXCEPT !.obj = Len(fetch.all_transactions) + 1]),
                    !.pos = IF AfterRecord(fetch) = "normalize" THEN @ + 1 ELSE 0,
                    !.page = IF AfterRecord(fetch) = "request" THEN @ + 1 ELSE @]
    /\ UNCHANGED calls
    /\ UNCHANGED FetchFrameVars

\* _normalize_transaction raises: nothing in get_transactions catches it
FetchNormalizeRaise ==
    /\ pc = "normalize"
    /\ NormalizeRaises(fetch.transactions[fetch.pos])
    /\ fetch' = [fetch EXCEPT !.exc = "normalize"]
    /\ pc' = "raised"
    /\ UNCHANGED calls
    /\ UNCHANGED FetchFrameVars

NextFetch ==
    \/ FetchBegin
    \/ FetchRaiseSinceDate
    \/ FetchGet
    \/ FetchGetFail
    \/ FetchNormalize
    \/ FetchNormalizeRaise

SpecFetch == InitFetch /\ [][NextFetch]_vars

(***************************************************************************)
(* The normalizer's and the fetch's contract                               *)
(***************************************************************************)
\* the records normalized so far
Normalized == fetch.all_transactions

\* C12: every entry of categories of every normalized record has a name that is
\* not empty and is not "split" in any case
C12_CategoryNamesNonEmptyNotSplit ==
    \A i \in 1..Len(Normalized) :
        \A c \in 1..Len(Normalized[i].categories) :
            /\ Normalized[i].categories[c].category_name.s # <<>>
            /\ Lower(Normalized[i].categories[c].category_name.s) # sSplit

\* the raw records the service holds under the id of a normalized record
RawOfId(id) ==
    { provider[p][k] : <<p, k>> \in
        { q \in (1..MaxPages) \X (1..PageSize) :
            /\ q[2] <= Len(provider[q[1]])
            /\ Str(StrOrEmpty(Get(provider[q[1]][q[2]], "id"))) = id } }

\* C13: every normalized record carries the account_id of its raw record
C13_AccountIdCarried ==
    \A i \in 1..Len(Normalized) :
        \E raw \in RawOfId(Normalized[i].id) :
            Get(Normalized[i], "account_id") = raw.account_id

\* C14: a fetch is not ended by a record whose date does not parse
C14_BadDateDoesNotAbort ==
    pc = "raised" => fetch.exc # "normalize"

\* C15: no record is appended twice, whatever the service serves
C15_EachRecordOnce ==
    \A i, j \in 1..Len(Normalized) :
        i # j => Normalized[i].id # Normalized[j].id

(***************************************************************************)
(* The batch run: main() of services/transactions.py                      *)
(***************************************************************************)
\* the sheet with the column main() reads the budget name from
WithName(df) ==
    [cols |-> df.cols \cup {"Name"},
     rows |-> [k \in 1..Len(df.rows) |->
                 df.rows[k] @@ ("Name" :> df.rows[k]["Budget Name"])]]

\* feeds of budget A the batch starts from
BatchFeeds ==
    RunFeeds
    \cup { << Tx(sT1, <<>>, sChecking, << Category(sRent, Num(300)) >>),
              Tx(sT2, <<>>, sChecking, << Category(sGym, Num(50)) >>) >>,
           << Tx(sT2, sBlue, sSharedPot, << Category(sGym, Num(50)) >>) >> }

InitBatch ==
    /\ \E df \in {WithName(UsersSheet), UsersSheet, WithName(UsersBadNumber)} :
          frames = [caller |-> df, copy |-> NoFrame]
    /\ category_mappings_df = RulesSheet
    /\ \E feedA \in BatchFeeds :
       \E feedB \in { <<>>, << Tx(sT1, <<>>, sChecking,
                                  << Category(sGym, Num(80)) >>) >> } :
          budgets = Service(feedA, feedB, AccountsB)
    /\ transactions = <<>>
    /\ user_number = 0
    /\ pc = "idle"
    /\ filtered = <<>>
    /\ first_filtered = <<>>
    /\ frames0 = frames
    /\ ncalls = 0
    /\ idx = 0
    /\ results = <<>>
    /\ calls = <<>>
    /\ source_user = NoUser
    /\ target_user = NoUser
    /\ grouped_results = <<>>
    /\ runs = <<>>
    /\ provider = NoProvider
    /\ fetch = NoFetch
    /\ lookup = NoLookup

\* ynab.get_budget_id_by_name(row["Name"])
BatchBudget(row) == GetIdByName(BudgetList, StrOf(row["Name"]))

\* whether the first loop ends with an exception: no "Name" column, no budget
\* of that name, or a user number int() does not take
BatchCollectRaises(users_df) ==
    IF "Name" \notin users_df.cols THEN TRUE
    ELSE \E k \in 1..Len(users_df.rows) :
            IF ~BatchBudget(users_df.rows[k]).ok THEN TRUE
            ELSE IntRaises(users_df.rows[k]["User Number"])

\* one pass of the first loop; the Filter loads the settings sheet by itself
BatchUser(row) ==
    [user |-> [budget_id |-> BatchBudget(row).id,
               user_num |-> IntCast(row["User Number"])],
     shared_transactions |->
        FilterResult(Feed(BatchBudget(row).id.s), IntCast(row["User Number"]),
                     category_mappings_df, frames0.caller)]

\* the requests of one pass: the budget list and the feed
BatchGets(row) ==
    << [method |-> "get", rec |-> 0, path |-> "budgets", budget_id |-> NoneV,
        outcome |-> "ok"],
       [method |-> "get", rec |-> 0, path |-> "transactions",
        budget_id |-> BatchBudget(row).id, outcome |-> "ok"] >>

\* final_tx.iloc[0].values.tolist(): the three cells of the first row
FirstRow(grouped) ==
    << grouped[1].original, grouped[1].source, grouped[1].target >>

\* the pair the second loop is at
BatchPair == PairsSeq(Len(filtered))[ncalls + 1]

\* the first loop: every user's feed is fetched and filtered
BatchCollect ==
    /\ pc = "idle"
    /\ ~BatchCollectRaises(frames.caller)
    /\ filtered' = [k \in 1..Len(frames.caller.rows) |->
                       BatchUser(frames.caller.rows[k])]
    /\ calls' = calls \o Concat([k \in 1..Len(frames.caller.rows) |->
                                    BatchGets(frames.caller.rows[k])])
    /\ pc' = "collected"
    /\ UNCHANGED <<frames, transactions, user_number, first_filtered, ncalls, runs>>
    /\ UNCHANGED <<FetchVars, ConfigVars, LoopVars, SplitVars>>

\* the first loop ends with an exception, which ends main()
BatchCollectRaise ==
    /\ pc = "idle"
    /\ BatchCollectRaises(frames.caller)
    /\ pc' = "raised"
    /\ UNCHANGED <<frames, transactions, calls, ncalls, runs>>
    /\ UNCHANGED <<FetchVars, ConfigVars, FilterVars, LoopVars, SplitVars>>

\* a fetch of either loop fails: the exception ends main()
BatchFetchFail ==
    /\ \/ pc = "idle" /\ ~BatchCollectRaises(frames.caller)
       \/ pc = "collected" /\ ncalls < Len(PairsSeq(Len(filtered)))
    /\ calls' = Append(calls, [method |-> "get", rec |-> 0, path |-> "any",
                               budget_id |-> NoneV, outcome |-> "error"])
    /\ pc' = "raised"
    /\ UNCHANGED <<frames, transactions, ncalls, runs>>
    /\ UNCHANGED <<FetchVars, ConfigVars, FilterVars, LoopVars, SplitVars>>

\* one pass of the second loop up to the call of the Reconciler: the pair is
\* split and the first row of the frame of its groups is handed over; without
\* groups the loop goes on to the next pair
BatchSplit ==
    /\ pc = "collected"
    /\ ncalls < Len(PairsSeq(Len(filtered)))
    /\ frames' = SplitFramesAfter(frames)
    /\ calls' = calls \o GetsUpTo(filtered[BatchPair[1]].user,
                                  filtered[BatchPair[2]].user, 4, "ok")
    /\ grouped_results' =
          SplitResult(filtered[BatchPair[1]].shared_transactions,
                      filtered[BatchPair[1]].user, filtered[BatchPair[2]].user,
                      category_mappings_df,
                      SplitFramesAfter(frames)[WorkingFrame], budgets)
    /\ transactions' = IF grouped_results' = <<>> THEN <<>>
                       ELSE FirstRow(grouped_results')
    /\ pc' = IF grouped_results' = <<>> THEN "collected" ELSE "loop"
    /\ ncalls' = ncalls + 1
    /\ idx' = 1
    /\ results' = <<>>
    /\ UNCHANGED <<source_user, target_user, runs>>
    /\ UNCHANGED <<FetchVars, ConfigVars, FilterVars>>

\* the Reconciler reaches the cell of a group without source: None has no
\* get, and the AttributeError ends main()
BatchRaiseNone ==
    /\ InLoop
    /\ CurTx = NoneV
    /\ pc' = "raised"
    /\ UNCHANGED <<frames, idx, results, calls>>
    /\ UNCHANGED UpsertFrameVars

\* the Reconciler has returned: the results are printed and the second loop
\* goes on
BatchNextPair ==
    /\ pc = "returned"
    /\ pc' = "collected"
    /\ UNCHANGED <<frames, idx, results, calls>>
    /\ UNCHANGED UpsertFrameVars

\* the users of the second loop are built from the rows of the sheet, so the
\* Split Engine finds the row of each; the Reconciler's other branches need a
\* record without user_num, id or account_id
NextBatch ==
    \/ BatchCollect
    \/ BatchCollectRaise
    \/ BatchFetchFail
    \/ BatchSplit
    \/ UpsertUpdate
    \/ UpsertCreate
    \/ UpsertReturn
    \/ BatchRaiseNone
    \/ BatchNextPair

SpecBatch == InitBatch /\ [][NextBatch]_vars

\* C25: the list handed to the Reconciler holds the original, the source when
\* there is one, and the target of every group the Split Engine emitted for
\* the pair
C25_EveryGroupReconciled ==
    pc \in {"loop", "returned"} =>
        \A h \in 1..Len(grouped_results) :
            /\ \E r \in 1..Len(transactions) :
                  transactions[r] = grouped_results[h].original
            /\ grouped_results[h].source # NoneV =>
                  \E r \in 1..Len(transactions) :
                     transactions[r] = grouped_results[h].source
            /\ \E r \in 1..Len(transactions) :
                  transactions[r] = grouped_results[h].target

(***************************************************************************)
(* Calls of YNABClient.get_id_by_name on a list already fetched           *)
(***************************************************************************)
sPotUpper == <<"P","O","T">>
sChequing == <<"C","h","e","q","u","i","n","g">>
sSharedPotLower == <<"s","h","a","r","e","d"," ","p","o","t">>
sPotsLower == <<"p","o","t","s">>

\* the lists a name is looked up in: no object, one object, two objects the
\* query may both be part of, and the category lists of the two budgets
ObjectLists ==
    { << >>, AccountsA, AccountsB,
      << Object(<<"p","1">>, sSharedPotLower), Object(<<"p","2">>, sPotsLower) >>,
      CategoriesA, CategoriesB }

LookupNames ==
    { <<>>, sPot, sPotUpper, sPots, sPotts, sChecking, sChequing,
      sGroceries, sGym, sGymPadded, sRent, sTravel }

InitLookup ==
    /\ \E objects \in ObjectLists, name \in LookupNames :
          lookup = [objects |-> objects, name |-> name, result |-> NoneV]
    /\ provider = NoProvider
    /\ fetch = NoFetch
    /\ frames = [caller |-> EmptyFrame, copy |-> NoFrame]
    /\ category_mappings_df = EmptyFrame
    /\ transactions = <<>>
    /\ user_number = 0
    /\ pc = "ready"
    /\ filtered = <<>>
    /\ first_filtered = <<>>
    /\ frames0 = frames
    /\ ncalls = 0
    /\ idx = 0
    /\ results = <<>>
    /\ calls = <<>>
    /\ budgets = NoBudgets
    /\ source_user = NoUser
    /\ target_user = NoUser
    /\ grouped_results = <<>>
    /\ runs = <<>>

LookupFrameVars ==
    <<ConfigVars, FilterVars, LoopVars, SplitVars, frames, transactions, ncalls,
      runs, calls, provider, fetch>>

\* an id is returned
GetIdReturn ==
    /\ pc = "ready"
    /\ GetIdByName(lookup.objects, lookup.name).ok
    /\ lookup' = [lookup EXCEPT
                    !.result = GetIdByName(lookup.objects, lookup.name).id]
    /\ pc' = "returned"
    /\ UNCHANGED LookupFrameVars

\* the call ends with the ValueError
GetIdRaise ==
    /\ pc = "ready"
    /\ ~GetIdByName(lookup.objects, lookup.name).ok
    /\ pc' = "raised"
    /\ UNCHANGED lookup
    /\ UNCHANGED LookupFrameVars

NextLookup ==
    \/ GetIdReturn
    \/ GetIdRaise

SpecLookup == InitLookup /\ [][NextLookup]_vars

\* the objects whose name contains the query, case ignored
SubstringHits ==
    { k \in 1..Len(lookup.objects) :
        In(Lower(lookup.name), Lower(lookup.objects[k].name)) }

\* the similarity of the lower-cased query and the name of object k
Similarity(k) == Ratio(lookup.objects[k].name, Lower(lookup.name))

\* the objects whose name is similar enough to the query
CloseEnough ==
    { k \in 1..Len(lookup.objects) : AtLeastCutoff(Similarity(k)) }

\* C23: when some name contains the query, case ignored, the call returns the
\* id of the first such object; when none does, it returns the id of an object
\* whose name is the most similar among those reaching the cutoff 0.6; it
\* raises when the list is empty and when neither stage finds an object
C23_SubstringFirstThenClosest ==
    pc # "ready" =>
        /\ SubstringHits # {} =>
              /\ pc = "returned"
              /\ \E k \in SubstringHits :
                    /\ \A j \in SubstringHits : k <= j
                    /\ lookup.result = lookup.objects[k].id
        /\ (SubstringHits = {} /\ CloseEnough # {}) =>
              /\ pc = "returned"
              /\ \E k \in CloseEnough :
                    /\ \A j \in CloseEnough :
                          Similarity(j)[1] * Similarity(k)[2]
                            <= Similarity(k)[1] * Similarity(j)[2]
                    /\ lookup.result = lookup.objects[k].id
        /\ (SubstringHits = {} /\ CloseEnough = {}) => pc = "raised"
        /\ lookup.objects = << >> => pc = "raised"

\* the first of two objects containing the query was returned although the
\* name of the second is the more similar one
C23_Witness ==
    /\ pc = "returned"
    /\ Cardinality(SubstringHits) = 2
    /\ lookup.result = lookup.objects[1].id
    /\ 2 \in CloseEnough
    /\ Similarity(1)[1] * Similarity(2)[2] < Similarity(2)[1] * Similarity(1)[2]

====
